---- MODULE Spec2Model ----
(***************************************************************************)
(* Lock-driven resolver core of pex: the atomic directory, the artifact    *)
(* store built on it, and the download orchestrator resolve_from_lock.     *)
(*                                                                         *)
(* Two specifications share the atomic-directory actions:                  *)
(*   SpecAD  plain callers of atomic_directory on one target directory     *)
(*           (Pip.create, Platform.supported_tags, the test_common tests); *)
(*   Spec    orchestrator runs whose pool tasks call DownloadManager.store.*)
(***************************************************************************)
EXTENDS Integers, Sequences, FiniteSets, TLC

\* ------------------------------------------------------------------ bounds
MaxWorkers == 2
MaxRuns == 2
MaxArtifacts == 2
CpuCount == 1
MaxLen == 11
MaxJobs == 3
MaxResolves == 2
MaxTags == 2

\* ------------------------------------------------------- program constants
MAX_PARALLEL_DOWNLOADS == 10
MaxParallelJobs == 0

\* ------------------------------------------------------------ identifiers
Workers == 101..(100 + MaxWorkers)
StoreTasks == 1..MaxArtifacts
Tasks == StoreTasks \cup Workers

\* ------------------------------------------------------------ file system
NoDir == [exists |-> FALSE, files |-> {}]
Dir(fs) == [exists |-> TRUE, files |-> fs]
File(n, t, d) == [name |-> n, by |-> t, data |-> d]

\* What the files of the scope bodies are called.
BodyFiles == {"a", "b"}
WorkerDir == "d"

\* ------------------------------------------------------------------- state
VARIABLES
    target,     \* target_dir of every key: NoDir or Dir(files)
    lock,       \* holder of the per-target file lock, 0 when free
    pc,         \* position of every task
    excl,       \* the task's exclusive argument
    plan,       \* the files a plain caller's body is going to create
    work,       \* the task's work directory
    fin,        \* what is_finalized() answered on entry
    errno,      \* what the scope's publishing os.rename ended with
    outcome,    \* how the task's scope ended
    source,     \* the bytes the artifact's source currently serves, per key
    saves,      \* number of save() invocations, per key
    digest,     \* the hex digest the task's save streamed into the hasher
    ret,        \* what store returned to the task
    runNo,      \* how many times resolve_from_lock was called so far
    arts,       \* downloadable_artifacts of the current run
    runpc,      \* position of the current run of resolve_from_lock
    result,     \* what the run returned: the aggregated Error or Installed
    wheels,     \* wheel paths finalized in the builds cache
    installs    \* wheel paths whose install has started in the current run

fsVars == <<target, lock>>
scopeVars == <<pc, excl, plan, work, fin, errno, outcome>>
storeVars == <<source, saves, digest, ret>>
runVars == <<runNo, arts, runpc, result>>
installVars == <<wheels, installs>>
coreVars == <<fsVars, scopeVars, storeVars, runVars, installVars>>

\* The thread pool of resolve_from_lock, looked at on its own (SpecPool).
VARIABLES
    poolLen,        \* len(downloadable_artifacts)
    poolJobs,       \* max_parallel_jobs; 0 stands for None as well
    poolCpus,       \* what cpu_count() answers; 0 stands for None
    poolSize,       \* processes of the ThreadPool, 0 before it is created
    poolSent,       \* how many artifacts pool.map has handed to a thread
    poolInFlight    \* how many download tasks are running

poolVars == <<poolLen, poolJobs, poolCpus, poolSize, poolSent, poolInFlight>>
PoolIdle ==
    /\ poolLen = 0 /\ poolJobs = 0 /\ poolCpus = 0
    /\ poolSize = 0 /\ poolSent = 0 /\ poolInFlight = 0

\* Lockfile.create and Lockfile.select for one target (SpecSelect).
VARIABLES
    selSupplied,    \* the locked resolves as handed to Lockfile.create
    selTags,        \* target.get_supported_tags(), best first
    selpc,          \* "start", "created", "selected"
    selLock,        \* Lockfile.locked_resolves
    selRanks,       \* what _RankedLock.rank returned for each of them
    selYield,       \* what select yielded for the target
    selOutcome      \* how select dealt with the target

selVars == <<selSupplied, selTags, selpc, selLock, selRanks, selYield, selOutcome>>
SelIdle ==
    /\ selSupplied = <<>> /\ selTags = <<>> /\ selpc = "idle"
    /\ selLock = <<>> /\ selRanks = <<>> /\ selYield = <<>> /\ selOutcome = ""

\* The lock subsetter feeding resolve_from_lock, for the targets of one run
\* (SpecSubset).
VARIABLES
    subRoots,       \* the root requirements: records [project, marker]
    subDeps,        \* the dependencies the lock records: [from, to, marker]
    subTargets,     \* the marker environments of the targets of the run
    subpc,          \* "start", "subset", "done"
    subSubsets,     \* target -> the projects of its resolved subset
    subDownloaded   \* the projects whose artifact a pool task has downloaded

subVars == <<subRoots, subDeps, subTargets, subpc, subSubsets, subDownloaded>>
SubIdle ==
    /\ subRoots = {} /\ subDeps = {} /\ subTargets = {} /\ subpc = "idle"
    /\ subSubsets = <<>> /\ subDownloaded = {}

\* The content digest of a project directory or of an extracted VCS archive,
\* recomputed after every change to the tree (SpecDigest).
VARIABLES
    dirVcs,         \* "" for a local project, else the VCS of the archive
    dirTree,        \* path -> [contents, mtime] for every file of the tree
    dirDigest,      \* what the digest was fed when the tree was last hashed
    dirEdits        \* how many changes the tree has seen

dirVars == <<dirVcs, dirTree, dirDigest, dirEdits>>
DirIdle == dirVcs = "" /\ dirTree = <<>> /\ dirDigest = <<>> /\ dirEdits = 0

\* A lockfile written to disk and read back (SpecLockfile).
VARIABLES
    lfOrig,         \* the lockfile as Lockfile.create returned it
    lfLock,         \* the lockfile in hand, after attr.evolve calls
    lfEvolves,      \* how many attr.evolve calls were made
    lfpc,           \* "created", "serialized", "parsed"
    lfDoc,          \* the JSON document written for lfLock
    lfParsed        \* the lockfile loaded from the document

lfVars == <<lfOrig, lfLock, lfEvolves, lfpc, lfDoc, lfParsed>>
LfIdle ==
    /\ lfOrig = <<>> /\ lfLock = <<>> /\ lfEvolves = 0 /\ lfpc = "idle"
    /\ lfDoc = <<>> /\ lfParsed = <<>>

\* parse_lockfile for a lockfile with placeholders in its URLs (SpecPaths).
VARIABLES
    pmUrls,         \* the artifact URLs of the lockfile on disk
    pmDescriptions, \* the description the lockfile records for each name
    pmOptions,      \* options.path_mappings, each split at its "|"
    pmpc,           \* "start", "options", "raised", "done"
    pmMappings,     \* PathMappings.mappings
    pmRaised,       \* the PathMappingError in flight
    pmResult        \* what parse_lockfile returned

pmVars == <<pmUrls, pmDescriptions, pmOptions, pmpc, pmMappings, pmRaised, pmResult>>
PmIdle ==
    /\ pmUrls = <<>> /\ pmDescriptions = <<>> /\ pmOptions = <<>> /\ pmpc = "idle"
    /\ pmMappings = <<>> /\ pmRaised = <<>> /\ pmResult = <<>>

\* One --path-mapping value as get_path_mappings parses it (SpecArgs).
VARIABLES
    argValue,       \* the value on the command line, character by character
    argpc,          \* "start", "done"
    argResult       \* the PathMapping, or the ArgumentTypeError raised

argVars == <<argValue, argpc, argResult>>
ArgIdle == argValue = <<>> /\ argpc = "idle" /\ argResult = <<>>

\* One PEP-517 build hook invocation and what its caller gets (SpecHook).
VARIABLES
    hookMethod,     \* "build_sdist" or "prepare_metadata_for_build_wheel"
    hookProject,    \* what project_directory names: "dir", "file", "missing"
    hookBackend,    \* the hook methods the build backend has
    hookStderr,     \* the stderr a Job.Error of the subprocess carries
    hookpc,         \* "start", "spawned", "exited", "raised", "done"
    hookExit,       \* the exit code of the subprocess, -1 while there is none
    hookResult,     \* what the caller got: a value, an Error or a Job.Error
    hookFallback    \* what is_hook_unavailable_error told the caller

hookVars == <<hookMethod, hookProject, hookBackend, hookStderr, hookpc, hookExit,
              hookResult, hookFallback>>
HookIdle ==
    /\ hookMethod = "" /\ hookProject = "" /\ hookBackend = {} /\ hookStderr = ""
    /\ hookpc = "idle" /\ hookExit = -1 /\ hookResult = <<>> /\ hookFallback = "unknown"

\* The installs of one resolve_from_lock run and what it returns (SpecInstall).
VARIABLES
    instRequests,   \* the distributions to install: (project name, target) pairs
    instDone,       \* the installed distributions, in completion order
    instResult,     \* Installed.installed_distributions, <<>> until returned
    instpc          \* "idle", "installing", "installed" or "returned"

instVars == <<instRequests, instDone, instResult, instpc>>
InstIdle ==
    /\ instRequests = {} /\ instDone = <<>> /\ instResult = <<>> /\ instpc = "idle"

\* An external cancel signal reaching resolve_from_lock while it downloads
\* (SpecCancel).
VARIABLES
    interrupted     \* "no", "raised" (in the main thread, inside pool.map) or
                    \* "propagated" (out of resolve_from_lock, after pool.join())

cancelVars == <<interrupted>>
CancelIdle == interrupted = "no"

\* Populating a venv from the distributions of a PEX (SpecVenv).
VARIABLES
    venvDists,      \* the distributions: for each, the files it provides
    venvCall,       \* how populate_venv_with_pex is reached
    venvProvenance, \* provenance: destination path -> the sources copied to it
    venvNext,       \* the next distribution to copy, 0 when idle
    venvOutcome     \* "", "populated", "warned" or "CollisionError", with the
                    \* collisions reported

venvVars == <<venvDists, venvCall, venvProvenance, venvNext, venvOutcome>>
VenvIdle ==
    /\ venvDists = <<>> /\ venvCall = "" /\ venvProvenance = <<>>
    /\ venvNext = 0 /\ venvOutcome = <<>>

\* Lockfile.allow_wheels of the lock that select ranks (SpecNoWheels).
VARIABLES
    allowWheels     \* Lockfile.allow_wheels

noWheelVars == <<allowWheels>>
NoWheelIdle == allowWheels = TRUE

\* resolve_from_lock from the subsets of its targets to the build and install
\* requests (SpecRequests).
VARIABLES
    rqSubsets,      \* subset_result.subsets: [target, downloadable_artifacts]
    rqSubmitted,    \* the items pool.map was given, in order
    rqResults,      \* item index -> "pending", "ok" or "error"
    rqBuild,        \* build_requests: <<target, artifact>> pairs
    rqInstall,      \* install_requests: <<target, artifact>> pairs
    rqpc,           \* "idle", "start", "map", "install" or "done"
    rqResult        \* "", "Error" or "Installed"

rqVars == <<rqSubsets, rqSubmitted, rqResults, rqBuild, rqInstall, rqpc, rqResult>>
RqIdle ==
    /\ rqSubsets = <<>> /\ rqSubmitted = <<>> /\ rqResults = <<>>
    /\ rqBuild = <<>> /\ rqInstall = <<>> /\ rqpc = "idle" /\ rqResult = ""

\* One VCSArtifactDownloadManager.save call (SpecVcs).
VARIABLES
    vcsDists,       \* downloaded_vcs.local_distributions: [path, content]
    vcsFiles,       \* the files on disk: path -> content
    vcsDigest,      \* what the digest was updated with, <<>> while untouched
    vcspc,          \* "idle", "start", "downloaded", "hashed" or "returned"
    vcsRet          \* what save returned

vcsVars == <<vcsDists, vcsFiles, vcsDigest, vcspc, vcsRet>>
VcsIdle ==
    /\ vcsDists = <<>> /\ vcsFiles = <<>> /\ vcsDigest = <<>>
    /\ vcspc = "idle" /\ vcsRet = <<>>

\* Pip.spawn_install_wheel and the job it returns: the calls made so far, the
\* arguments of the current call, the install command handed to the
\* subprocess, whether a subprocess was spawned, its exit code and whether the
\* post-install fixup rewrote the installation.
VARIABLES whCalls, whCall, whCmd, whSpawned, whReturncode, whFixedUp, whpc
whVars == <<whCalls, whCall, whCmd, whSpawned, whReturncode, whFixedUp, whpc>>
NoWheelCall == [wheel |-> "", install_dir |-> "", is_foreign |-> FALSE, compile |-> FALSE]
WhIdle ==
    /\ whCalls = 0 /\ whCall = NoWheelCall /\ whCmd = <<>> /\ whSpawned = FALSE
    /\ whReturncode = -1 /\ whFixedUp = FALSE /\ whpc = "idle"

\* get_pip and the download pool of resolve_from_lock: the keys of _PIP, the
\* Pip.create calls made (thread 0 is the main thread) with the state of the
\* pool at the time, the pool, where resolve_from_lock stands and where each
\* download task stands.
VARIABLES pipCache, pipCreations, pipPool, pipMain, pipTask
pipVars == <<pipCache, pipCreations, pipPool, pipMain, pipTask>>
PipIdle ==
    /\ pipCache = {} /\ pipCreations = <<>> /\ pipPool = "none"
    /\ pipMain = "idle" /\ pipTask = <<>>

\* Platform.supported_tags for one (platform, manylinux) key called from
\* several threads: the entry of _SUPPORTED_TAGS_BY_PLATFORM (<<>> while
\* unset), the number of writes of it, the PLAT-INFO file of the disk cache
\* (<<>> while the directory is absent), and per caller its position, the
\* data it loaded, what its call returned or raised, the calls it made, and
\* whether its current call found the memory cache set and touched the disk.
VARIABLES tgMemo, tgWrites, tgDisk, tgpc, tgData, tgRet, tgCalls, tgHit, tgTouched
tgVars == <<tgMemo, tgWrites, tgDisk, tgpc, tgData, tgRet, tgCalls, tgHit, tgTouched>>
TgIdle ==
    /\ tgMemo = <<>> /\ tgWrites = 0 /\ tgDisk = <<>> /\ tgpc = <<>> /\ tgData = <<>>
    /\ tgRet = <<>> /\ tgCalls = <<>> /\ tgHit = <<>> /\ tgTouched = <<>>

\* _default_build_system called from download worker threads: the entry of
\* _DEFAULT_BUILD_SYSTEMS per pip version (0 while unset, else the identity
\* of the BuildSystem), the BuildSystem objects constructed per pip version,
\* and per thread its position, the pip version it asks for, the build
\* system it got and the calls it made.
VARIABLES bsCache, bsCreated, bspc, bsVersion, bsRet, bsCalls
bsVars == <<bsCache, bsCreated, bspc, bsVersion, bsRet, bsCalls>>
BsIdle ==
    /\ bsCache = <<>> /\ bsCreated = <<>> /\ bspc = <<>> /\ bsVersion = <<>>
    /\ bsRet = <<>> /\ bsCalls = <<>>

pureVars == <<poolVars, selVars, subVars, dirVars, lfVars, pmVars, argVars, hookVars, instVars, cancelVars, venvVars, noWheelVars, rqVars, vcsVars, whVars, pipVars, tgVars, bsVars>>
PureIdle == PoolIdle /\ SelIdle /\ SubIdle /\ DirIdle /\ LfIdle /\ PmIdle /\ ArgIdle /\ HookIdle /\ InstIdle /\ CancelIdle /\ VenvIdle /\ NoWheelIdle /\ RqIdle /\ VcsIdle /\ WhIdle /\ PipIdle /\ TgIdle /\ BsIdle

\* What an action of one specification leaves alone of all the others.
notPoolVars == <<coreVars, selVars, subVars, dirVars, lfVars, pmVars, argVars, hookVars, instVars, cancelVars, venvVars, noWheelVars, rqVars, vcsVars, whVars, pipVars, tgVars, bsVars>>
notPoolIdle == SelIdle /\ SubIdle /\ DirIdle /\ LfIdle /\ PmIdle /\ ArgIdle /\ HookIdle /\ InstIdle /\ CancelIdle /\ VenvIdle /\ NoWheelIdle /\ RqIdle /\ VcsIdle /\ WhIdle /\ PipIdle /\ TgIdle /\ BsIdle
notSelVars == <<coreVars, poolVars, subVars, dirVars, lfVars, pmVars, argVars, hookVars, instVars, cancelVars, venvVars, noWheelVars, rqVars, vcsVars, whVars, pipVars, tgVars, bsVars>>
notSelIdle == PoolIdle /\ SubIdle /\ DirIdle /\ LfIdle /\ PmIdle /\ ArgIdle /\ HookIdle /\ InstIdle /\ CancelIdle /\ VenvIdle /\ NoWheelIdle /\ RqIdle /\ VcsIdle /\ WhIdle /\ PipIdle /\ TgIdle /\ BsIdle
notSubVars == <<coreVars, poolVars, selVars, dirVars, lfVars, pmVars, argVars, hookVars, instVars, cancelVars, venvVars, noWheelVars, rqVars, vcsVars, whVars, pipVars, tgVars, bsVars>>
notSubIdle == PoolIdle /\ SelIdle /\ DirIdle /\ LfIdle /\ PmIdle /\ ArgIdle /\ HookIdle /\ InstIdle /\ CancelIdle /\ VenvIdle /\ NoWheelIdle /\ RqIdle /\ VcsIdle /\ WhIdle /\ PipIdle /\ TgIdle /\ BsIdle
notDirVars == <<coreVars, poolVars, selVars, subVars, lfVars, pmVars, argVars, hookVars, instVars, cancelVars, venvVars, noWheelVars, rqVars, vcsVars, whVars, pipVars, tgVars, bsVars>>
notDirIdle == PoolIdle /\ SelIdle /\ SubIdle /\ LfIdle /\ PmIdle /\ ArgIdle /\ HookIdle /\ InstIdle /\ CancelIdle /\ VenvIdle /\ NoWheelIdle /\ RqIdle /\ VcsIdle /\ WhIdle /\ PipIdle /\ TgIdle /\ BsIdle
notLfVars == <<coreVars, poolVars, selVars, subVars, dirVars, pmVars, argVars, hookVars, instVars, cancelVars, venvVars, noWheelVars, rqVars, vcsVars, whVars, pipVars, tgVars, bsVars>>
notLfIdle == PoolIdle /\ SelIdle /\ SubIdle /\ DirIdle /\ PmIdle /\ ArgIdle /\ HookIdle /\ InstIdle /\ CancelIdle /\ VenvIdle /\ NoWheelIdle /\ RqIdle /\ VcsIdle /\ WhIdle /\ PipIdle /\ TgIdle /\ BsIdle
notPmVars == <<coreVars, poolVars, selVars, subVars, dirVars, lfVars, argVars, hookVars, instVars, cancelVars, venvVars, noWheelVars, rqVars, vcsVars, whVars, pipVars, tgVars, bsVars>>
notPmIdle == PoolIdle /\ SelIdle /\ SubIdle /\ DirIdle /\ LfIdle /\ ArgIdle /\ HookIdle /\ InstIdle /\ CancelIdle /\ VenvIdle /\ NoWheelIdle /\ RqIdle /\ VcsIdle /\ WhIdle /\ PipIdle /\ TgIdle /\ BsIdle
notArgVars == <<coreVars, poolVars, selVars, subVars, dirVars, lfVars, pmVars, hookVars, instVars, cancelVars, venvVars, noWheelVars, rqVars, vcsVars, whVars, pipVars, tgVars, bsVars>>
notArgIdle == PoolIdle /\ SelIdle /\ SubIdle /\ DirIdle /\ LfIdle /\ PmIdle /\ HookIdle /\ InstIdle /\ CancelIdle /\ VenvIdle /\ NoWheelIdle /\ RqIdle /\ VcsIdle /\ WhIdle /\ PipIdle /\ TgIdle /\ BsIdle
notHookVars == <<coreVars, poolVars, selVars, subVars, dirVars, lfVars, pmVars, argVars, instVars, cancelVars, venvVars, noWheelVars, rqVars, vcsVars, whVars, pipVars, tgVars, bsVars>>
notHookIdle == PoolIdle /\ SelIdle /\ SubIdle /\ DirIdle /\ LfIdle /\ PmIdle /\ ArgIdle /\ InstIdle /\ CancelIdle /\ VenvIdle /\ NoWheelIdle /\ RqIdle /\ VcsIdle /\ WhIdle /\ PipIdle /\ TgIdle /\ BsIdle
notInstVars == <<coreVars, poolVars, selVars, subVars, dirVars, lfVars, pmVars, argVars, hookVars, cancelVars, venvVars, noWheelVars, rqVars, vcsVars, whVars, pipVars, tgVars, bsVars>>
notInstIdle == PoolIdle /\ SelIdle /\ SubIdle /\ DirIdle /\ LfIdle /\ PmIdle /\ ArgIdle /\ HookIdle /\ CancelIdle /\ VenvIdle /\ NoWheelIdle /\ RqIdle /\ VcsIdle /\ WhIdle /\ PipIdle /\ TgIdle /\ BsIdle
notCancelVars == <<coreVars, poolVars, selVars, subVars, dirVars, lfVars, pmVars, argVars, hookVars, instVars, venvVars, noWheelVars, rqVars, vcsVars, whVars, pipVars, tgVars, bsVars>>
notCancelIdle == PoolIdle /\ SelIdle /\ SubIdle /\ DirIdle /\ LfIdle /\ PmIdle /\ ArgIdle /\ HookIdle /\ InstIdle /\ VenvIdle /\ NoWheelIdle /\ RqIdle /\ VcsIdle /\ WhIdle /\ PipIdle /\ TgIdle /\ BsIdle
notVenvVars == <<coreVars, poolVars, selVars, subVars, dirVars, lfVars, pmVars, argVars, hookVars, instVars, cancelVars, noWheelVars, rqVars, vcsVars, whVars, pipVars, tgVars, bsVars>>
notVenvIdle == PoolIdle /\ SelIdle /\ SubIdle /\ DirIdle /\ LfIdle /\ PmIdle /\ ArgIdle /\ HookIdle /\ InstIdle /\ CancelIdle /\ NoWheelIdle /\ RqIdle /\ VcsIdle /\ WhIdle /\ PipIdle /\ TgIdle /\ BsIdle
notNoWheelVars == <<coreVars, poolVars, selVars, subVars, dirVars, lfVars, pmVars, argVars, hookVars, instVars, cancelVars, venvVars, rqVars, vcsVars, whVars, pipVars, tgVars, bsVars>>
notNoWheelIdle == PoolIdle /\ SelIdle /\ SubIdle /\ DirIdle /\ LfIdle /\ PmIdle /\ ArgIdle /\ HookIdle /\ InstIdle /\ CancelIdle /\ VenvIdle /\ RqIdle /\ VcsIdle /\ WhIdle /\ PipIdle /\ TgIdle /\ BsIdle
notRqVars == <<coreVars, poolVars, selVars, subVars, dirVars, lfVars, pmVars, argVars, hookVars, instVars, cancelVars, venvVars, noWheelVars, vcsVars, whVars, pipVars, tgVars, bsVars>>
notRqIdle == PoolIdle /\ SelIdle /\ SubIdle /\ DirIdle /\ LfIdle /\ PmIdle /\ ArgIdle /\ HookIdle /\ InstIdle /\ CancelIdle /\ VenvIdle /\ NoWheelIdle /\ VcsIdle /\ WhIdle /\ PipIdle /\ TgIdle /\ BsIdle
notVcsVars == <<coreVars, poolVars, selVars, subVars, dirVars, lfVars, pmVars, argVars, hookVars, instVars, cancelVars, venvVars, noWheelVars, rqVars, whVars, pipVars, tgVars, bsVars>>
notVcsIdle == PoolIdle /\ SelIdle /\ SubIdle /\ DirIdle /\ LfIdle /\ PmIdle /\ ArgIdle /\ HookIdle /\ InstIdle /\ CancelIdle /\ VenvIdle /\ NoWheelIdle /\ RqIdle /\ WhIdle /\ PipIdle /\ TgIdle /\ BsIdle
notWhVars == <<coreVars, poolVars, selVars, subVars, dirVars, lfVars, pmVars, argVars, hookVars, instVars, cancelVars, venvVars, noWheelVars, rqVars, vcsVars, pipVars, tgVars, bsVars>>
notWhIdle == PoolIdle /\ SelIdle /\ SubIdle /\ DirIdle /\ LfIdle /\ PmIdle /\ ArgIdle /\ HookIdle /\ InstIdle /\ CancelIdle /\ VenvIdle /\ NoWheelIdle /\ RqIdle /\ VcsIdle /\ PipIdle /\ TgIdle /\ BsIdle
notPipVars == <<coreVars, poolVars, selVars, subVars, dirVars, lfVars, pmVars, argVars, hookVars, instVars, cancelVars, venvVars, noWheelVars, rqVars, vcsVars, whVars, tgVars, bsVars>>
notPipIdle == PoolIdle /\ SelIdle /\ SubIdle /\ DirIdle /\ LfIdle /\ PmIdle /\ ArgIdle /\ HookIdle /\ InstIdle /\ CancelIdle /\ VenvIdle /\ NoWheelIdle /\ RqIdle /\ VcsIdle /\ WhIdle /\ TgIdle /\ BsIdle
notTgVars == <<coreVars, poolVars, selVars, subVars, dirVars, lfVars, pmVars, argVars, hookVars, instVars, cancelVars, venvVars, noWheelVars, rqVars, vcsVars, whVars, pipVars, bsVars>>
notTgIdle == PoolIdle /\ SelIdle /\ SubIdle /\ DirIdle /\ LfIdle /\ PmIdle /\ ArgIdle /\ HookIdle /\ InstIdle /\ CancelIdle /\ VenvIdle /\ NoWheelIdle /\ RqIdle /\ VcsIdle /\ WhIdle /\ PipIdle /\ BsIdle
notBsVars == <<coreVars, poolVars, selVars, subVars, dirVars, lfVars, pmVars, argVars, hookVars, instVars, cancelVars, venvVars, noWheelVars, rqVars, vcsVars, whVars, pipVars, tgVars>>
notBsIdle == PoolIdle /\ SelIdle /\ SubIdle /\ DirIdle /\ LfIdle /\ PmIdle /\ ArgIdle /\ HookIdle /\ InstIdle /\ CancelIdle /\ VenvIdle /\ NoWheelIdle /\ RqIdle /\ VcsIdle /\ WhIdle /\ PipIdle /\ TgIdle

vars == <<coreVars, pureVars>>

\* ------------------------------------------------------------ artifacts
\* FileArtifact / LocalProjectArtifact values of a lock.  A1 and A1x are the
\* same distribution file reached through two URLs: they share a cache key.
A1 == [kind |-> "file", pin |-> "p1 1.0", url |-> "https://a/p1.whl",
       filename |-> "p1.whl", key |-> "k1", fingerprint |-> <<"sha256", "h1">>]
A1x == [kind |-> "file", pin |-> "p1 1.0", url |-> "https://b/p1.whl",
        filename |-> "p1.whl", key |-> "k1", fingerprint |-> <<"sha256", "h1">>]
A2 == [kind |-> "local", pin |-> "p2 1.0", url |-> "file:///p2",
       filename |-> "p2.zip", key |-> "k2", fingerprint |-> <<"sha256", "h1">>]
Artifacts == {A1, A1x, A2}

StoreKeys == {a.key : a \in Artifacts}
Keys == StoreKeys \cup {WorkerDir}
Contents == {"c1", "c2"}

\* streaming_hasher(algorithm): the hex digest of the bytes streamed into it.
HexDigest(c) == CASE c = "c1" -> "h1" [] c = "c2" -> "h2" [] OTHER -> "h0"

\* OrderedSet(...) of the subsets' downloadable artifacts: no duplicates.
ArtifactLists ==
    {s \in UNION {[1..n -> Artifacts] : n \in 1..MaxArtifacts} :
        \A i, j \in DOMAIN s : i # j => s[i] # s[j]}

NoArtifact == [kind |-> "", pin |-> "", url |-> "", filename |-> "", key |-> "",
               fingerprint |-> <<>>]
Artifact(t) ==
    IF t \in StoreTasks /\ t <= Len(arts) THEN arts[t] ELSE NoArtifact
KeyOf(t) == IF t \in Workers THEN WorkerDir ELSE Artifact(t).key

\* What tells one call's work directory and files from every other call's.
CallId(t) == IF t \in Workers THEN t ELSE 10 * runNo + t

\* ------------------------------------------------------------ results
NoResult == [status |-> "none", path |-> <<>>, fingerprint |-> <<>>,
             expected |-> <<>>, actual |-> <<>>]
DownloadedArtifact(path, fp) ==
    [status |-> "ok", path |-> path, fingerprint |-> fp,
     expected |-> <<>>, actual |-> <<>>]
FingerprintMismatch(exp, act) ==
    [status |-> "FingerprintMismatch", path |-> <<>>, fingerprint |-> <<>>,
     expected |-> exp, actual |-> act]
TransportError ==
    [status |-> "DownloadTransportError", path |-> <<>>, fingerprint |-> <<>>,
     expected |-> <<>>, actual |-> <<>>]
CacheError ==
    [status |-> "CacheError", path |-> <<>>, fingerprint |-> <<>>,
     expected |-> <<>>, actual |-> <<>>]

NoRunResult == [kind |-> "none", count |-> 0, were |-> "", errors |-> "",
                details |-> <<>>]

CoreInit ==
    /\ target = [k \in Keys |-> NoDir]
    /\ lock = [k \in Keys |-> 0]
    /\ pc = [t \in Tasks |-> "idle"]
    /\ excl = [t \in Tasks |-> FALSE]
    /\ plan = [t \in Tasks |-> {}]
    /\ work = [t \in Tasks |-> NoDir]
    /\ fin = [t \in Tasks |-> FALSE]
    /\ errno = [t \in Tasks |-> ""]
    /\ outcome = [t \in Tasks |-> "none"]
    /\ source \in [StoreKeys -> Contents]
    /\ saves = [k \in StoreKeys |-> 0]
    /\ digest = [t \in StoreTasks |-> ""]
    /\ ret = [t \in StoreTasks |-> NoResult]
    /\ runNo = 0
    /\ arts = <<>>
    /\ runpc = "idle"
    /\ result = NoRunResult
    /\ wheels = {}
    /\ installs = {}

\* A fresh cache, nothing running.
Init == CoreInit /\ PureIdle

\* ------------------------------------------------- atomic_directory scope
\* A caller enters atomic_directory(target_dir, exclusive) with a body that is
\* going to create the files of p.
Call(t) ==
    /\ pc[t] = "idle"
    /\ \E e \in BOOLEAN, p \in SUBSET BodyFiles :
          /\ excl' = [excl EXCEPT ![t] = e]
          /\ plan' = [plan EXCEPT ![t] = p]
    /\ pc' = [pc EXCEPT ![t] = "lock"]
    /\ UNCHANGED <<fsVars, work, fin, errno, outcome, storeVars, runVars, installVars, pureVars>>

\* Mutant: the download managers get POSIX locks.
file_lock_style_posix == "POSIX"

\* The lock style resolve_from_lock gives its download managers.
file_lock_style == "BSD"

\* Mutant: no lock style holds back a thread of the same process.
LockExcludesProcessesOnly(t) == t \in Workers

\* A BSD (flock) lock excludes every other holder, threads of one process
\* included.  A POSIX (fcntl) lock belongs to the process: it does not hold
\* back the other pool threads of the orchestrator.  Plain callers are
\* processes of their own.
LockExcludes(t) == t \in Workers \/ file_lock_style = "BSD"

\* exclusive=true: take the per-target file lock, blocking while a peer holds
\* it; exclusive=false: no lock.
Acquire(t) ==
    /\ pc[t] = "lock"
    /\ IF excl[t]
       THEN /\ LockExcludes(t) => lock[KeyOf(t)] = 0
            /\ lock' = [lock EXCEPT ![KeyOf(t)] = t]
       ELSE UNCHANGED lock
    /\ pc' = [pc EXCEPT ![t] = "enter"]
    /\ UNCHANGED <<target, excl, plan, work, fin, errno, outcome, storeVars, runVars, installVars, pureVars>>

\* Entry: target_dir exists -> is_finalized, no work_dir; otherwise a fresh,
\* empty work directory of this call.
Enter(t) ==
    /\ pc[t] = "enter"
    /\ fin' = [fin EXCEPT ![t] = target[KeyOf(t)].exists]
    /\ work' = [work EXCEPT ![t] = IF target[KeyOf(t)].exists THEN NoDir ELSE Dir({})]
    /\ pc' = [pc EXCEPT ![t] = "body"]
    /\ UNCHANGED <<fsVars, excl, plan, errno, outcome, storeVars, runVars, installVars, pureVars>>

\* The errnos os.rename(work_dir, target_dir) can end with.
RenameErrnos(tgt) ==
    IF tgt.exists /\ tgt.files # {}
    THEN {"ENOTEMPTY", "EEXIST", "EPERM"}
    ELSE {"OK", "EPERM"}

\* Mutant: finalize swallows every OSError of the rename.
FinalizeOutcomeSwallowsAll(e) ==
    IF e = "OK" THEN "published" ELSE "lost_race"

\* Mutant: finalize takes only EEXIST for a lost race.
FinalizeOutcomeEexistOnly(e) ==
    IF e = "OK" THEN "published"
    ELSE IF e = "EEXIST" THEN "lost_race"
    ELSE "rename_error"

\* AtomicDirectory.finalize: how the rename's errno ends the scope.
FinalizeOutcome(e) ==
    IF e = "OK" THEN "published"
    ELSE IF e \in {"EEXIST", "ENOTEMPTY"} THEN "lost_race"
    ELSE "rename_error"

\* Scope exit after a body that returned.
Finalize(t) ==
    /\ pc[t] = "finalize"
    /\ IF fin[t]
       THEN /\ outcome' = [outcome EXCEPT ![t] = "finalized"]
            /\ UNCHANGED <<target, work, errno>>
       ELSE \E e \in RenameErrnos(target[KeyOf(t)]) :
            /\ errno' = [errno EXCEPT ![t] = e]
            /\ outcome' = [outcome EXCEPT ![t] = FinalizeOutcome(e)]
            /\ target' = IF e = "OK"
                         THEN [target EXCEPT ![KeyOf(t)] = work[t]]
                         ELSE target
            /\ work' = [work EXCEPT ![t] = NoDir]
    /\ pc' = [pc EXCEPT ![t] = "unlock"]
    /\ UNCHANGED <<lock, excl, plan, fin, storeVars, runVars, installVars, pureVars>>

\* Mutant: a raising body leaves its work directory behind.
CleanupKeepsWorkDir(t) ==
    /\ pc[t] = "cleanup"
    /\ pc' = [pc EXCEPT ![t] = "unlock"]
    /\ UNCHANGED <<fsVars, excl, plan, work, fin, errno, outcome, storeVars, runVars, installVars, pureVars>>

\* Scope exit after a body that raised: the work directory is removed.
Cleanup(t) ==
    /\ pc[t] = "cleanup"
    /\ work' = [work EXCEPT ![t] = NoDir]
    /\ pc' = [pc EXCEPT ![t] = "unlock"]
    /\ UNCHANGED <<fsVars, excl, plan, fin, errno, outcome, storeVars, runVars, installVars, pureVars>>

\* The lock is released last, when the scope is left.
Release(t) ==
    /\ pc[t] = "unlock"
    /\ lock' = IF lock[KeyOf(t)] = t THEN [lock EXCEPT ![KeyOf(t)] = 0] ELSE lock
    /\ pc' = [pc EXCEPT ![t] = "done"]
    /\ UNCHANGED <<target, excl, plan, work, fin, errno, outcome, storeVars, runVars, installVars, pureVars>>

\* ------------------------------------------------------- plain scope bodies
\* Mutant: the body does not ask is_finalized() before it writes.
BodyWriteWhenFinalized(t) ==
    /\ pc[t] = "body"
    /\ \E n \in plan[t] :
          /\ File(n, CallId(t), <<"x">>) \notin work[t].files
          /\ work' = [work EXCEPT ![t] = Dir(work[t].files \cup {File(n, CallId(t), <<"x">>)})]
    /\ UNCHANGED <<fsVars, pc, excl, plan, fin, errno, outcome, storeVars, runVars, installVars, pureVars>>

BodyWrite(t) ==
    /\ pc[t] = "body"
    /\ ~fin[t]
    /\ \E n \in plan[t] :
          /\ File(n, CallId(t), <<"x">>) \notin work[t].files
          /\ work' = [work EXCEPT ![t] = Dir(work[t].files \cup {File(n, CallId(t), <<"x">>)})]
    /\ UNCHANGED <<fsVars, pc, excl, plan, fin, errno, outcome, storeVars, runVars, installVars, pureVars>>

BodyReturn(t) ==
    /\ pc[t] = "body"
    /\ fin[t] \/ \A n \in plan[t] : File(n, CallId(t), <<"x">>) \in work[t].files
    /\ pc' = [pc EXCEPT ![t] = "finalize"]
    /\ UNCHANGED <<fsVars, excl, plan, work, fin, errno, outcome, storeVars, runVars, installVars, pureVars>>

BodyRaise(t) ==
    /\ pc[t] = "body"
    /\ outcome' = [outcome EXCEPT ![t] = "body_raised"]
    /\ pc' = [pc EXCEPT ![t] = "cleanup"]
    /\ UNCHANGED <<fsVars, excl, plan, work, fin, errno, storeVars, runVars, installVars, pureVars>>

NextAD ==
    \E t \in Workers :
        \/ Call(t)
        \/ Acquire(t)
        \/ Enter(t)
        \/ BodyWrite(t)
        \/ BodyReturn(t)
        \/ BodyRaise(t)
        \/ Finalize(t)
        \/ Cleanup(t)
        \/ Release(t)

InitAD == Init /\ \A k \in StoreKeys : source[k] = "c1"

SpecAD == InitAD /\ [][NextAD]_vars

\* ---------------------------------------------------- DownloadManager.store
\* The FINGERPRINT sidecar holds "algorithm:hex_digest".
SidecarName == "FINGERPRINT"
FormatSidecar(fp) == <<fp[1], ":", fp[2]>>
ParseSidecar(data) == <<data[1], data[3]>>

\* The path and fingerprint of a finalized cache entry: the fingerprint is read
\* back from the sidecar, the path is the artifact file beside it.
Load(key, dir) ==
    LET side == CHOOSE f \in dir.files : f.name = SidecarName
        file == CHOOSE f \in dir.files : f.name # SidecarName
    IN DownloadedArtifact(<<key, file.name>>, ParseSidecar(side.data))

\* Step 3 of store: the entry was finalized on entry.
StoreLoad(t) ==
    /\ pc[t] = "body"
    /\ fin[t]
    /\ ret' = [ret EXCEPT ![t] = Load(KeyOf(t), target[KeyOf(t)])]
    /\ pc' = [pc EXCEPT ![t] = "finalize"]
    /\ UNCHANGED <<fsVars, excl, plan, work, fin, errno, outcome, source, saves, digest, runVars, installVars, pureVars>>

\* Mutant: save is called although the entry is finalized.
SaveWhenFinalized(t) ==
    /\ pc[t] = "body"
    /\ saves' = [saves EXCEPT ![KeyOf(t)] = @ + 1]
    /\ \/ /\ work' = [work EXCEPT ![t] =
                 Dir(@.files \cup {File(Artifact(t).filename, CallId(t), <<source[KeyOf(t)]>>)})]
          /\ digest' = [digest EXCEPT ![t] = HexDigest(source[KeyOf(t)])]
          /\ pc' = [pc EXCEPT ![t] = "verify"]
          /\ UNCHANGED <<ret, outcome>>
       \/ /\ \E partial \in BOOLEAN :
                work' = [work EXCEPT ![t] =
                    IF partial
                    THEN Dir(@.files \cup {File(Artifact(t).filename, CallId(t), <<"partial">>)})
                    ELSE @]
          /\ ret' = [ret EXCEPT ![t] = TransportError]
          /\ outcome' = [outcome EXCEPT ![t] = "body_raised"]
          /\ pc' = [pc EXCEPT ![t] = "cleanup"]
          /\ UNCHANGED digest
    /\ UNCHANGED <<fsVars, excl, plan, fin, errno, source, runVars, installVars, pureVars>>

\* Mutant: the Error of save is returned from inside the scope, not raised.
SaveErrorLeavesScopeNormally(t) ==
    /\ pc[t] = "body"
    /\ ~fin[t]
    /\ saves' = [saves EXCEPT ![KeyOf(t)] = @ + 1]
    /\ \/ /\ work' = [work EXCEPT ![t] =
                 Dir(@.files \cup {File(Artifact(t).filename, CallId(t), <<source[KeyOf(t)]>>)})]
          /\ digest' = [digest EXCEPT ![t] = HexDigest(source[KeyOf(t)])]
          /\ pc' = [pc EXCEPT ![t] = "verify"]
          /\ UNCHANGED <<ret, outcome>>
       \/ /\ \E partial \in BOOLEAN :
                work' = [work EXCEPT ![t] =
                    IF partial
                    THEN Dir(@.files \cup {File(Artifact(t).filename, CallId(t), <<"partial">>)})
                    ELSE @]
          /\ ret' = [ret EXCEPT ![t] = TransportError]
          /\ pc' = [pc EXCEPT ![t] = "finalize"]
          /\ UNCHANGED <<digest, outcome>>
    /\ UNCHANGED <<fsVars, excl, plan, fin, errno, source, runVars, installVars, pureVars>>

\* FileArtifactDownloadManager.save / LocalProjectDownloadManager.save: stream
\* the source into dest_dir/filename and into the digest, or return an Error
\* (possibly after part of the file was written).
Save(t) ==
    /\ pc[t] = "body"
    /\ ~fin[t]
    /\ saves' = [saves EXCEPT ![KeyOf(t)] = @ + 1]
    /\ \/ /\ work' = [work EXCEPT ![t] =
                 Dir(@.files \cup {File(Artifact(t).filename, CallId(t), <<source[KeyOf(t)]>>)})]
          /\ digest' = [digest EXCEPT ![t] = HexDigest(source[KeyOf(t)])]
          /\ pc' = [pc EXCEPT ![t] = "verify"]
          /\ UNCHANGED <<ret, outcome>>
       \/ /\ \E partial \in BOOLEAN :
                work' = [work EXCEPT ![t] =
                    IF partial
                    THEN Dir(@.files \cup {File(Artifact(t).filename, CallId(t), <<"partial">>)})
                    ELSE @]
          /\ ret' = [ret EXCEPT ![t] = TransportError]
          /\ outcome' = [outcome EXCEPT ![t] = "body_raised"]
          /\ pc' = [pc EXCEPT ![t] = "cleanup"]
          /\ UNCHANGED digest
    /\ UNCHANGED <<fsVars, excl, plan, fin, errno, source, runVars, installVars, pureVars>>

\* Mutant: only a FileArtifact is compared.
MismatchFileOnly(artifact, hex) ==
    /\ artifact.kind = "file"
    /\ artifact.fingerprint[2] # hex

\* Mutant: a LocalProjectArtifact is stored without comparison.
MismatchNotLocal(artifact, hex) ==
    /\ artifact.kind # "local"
    /\ artifact.fingerprint[2] # hex

\* Whether the streamed digest is compared to the recorded fingerprint, and
\* found different.
Mismatch(artifact, hex) ==
    /\ artifact.fingerprint # <<>>
    /\ artifact.fingerprint[2] # hex

\* Steps 4 and 5 of store: compare the digest, write the sidecar, return.
Verify(t) ==
    /\ pc[t] = "verify"
    /\ LET a == Artifact(t)
           actual == <<a.fingerprint[1], digest[t]>>
       IN IF Mismatch(a, digest[t])
          THEN /\ ret' = [ret EXCEPT ![t] = FingerprintMismatch(a.fingerprint, actual)]
               /\ outcome' = [outcome EXCEPT ![t] = "body_raised"]
               /\ pc' = [pc EXCEPT ![t] = "cleanup"]
               /\ UNCHANGED work
          ELSE /\ work' = [work EXCEPT ![t] =
                      Dir(@.files \cup {File(SidecarName, CallId(t), FormatSidecar(actual))})]
               /\ ret' = [ret EXCEPT ![t] = DownloadedArtifact(<<a.key, a.filename>>, actual)]
               /\ pc' = [pc EXCEPT ![t] = "finalize"]
               /\ UNCHANGED outcome
    /\ UNCHANGED <<fsVars, excl, plan, fin, errno, source, saves, digest, runVars, installVars, pureVars>>

\* catch(store, artifact, project_name): what the pool task hands back.
TaskResult(t) ==
    IF outcome[t] = "rename_error" THEN CacheError ELSE ret[t]

\* The artifact's source serves other bytes from now on.
SourceChange(k) ==
    /\ \E c \in Contents \ {source[k]} : source' = [source EXCEPT ![k] = c]
    /\ UNCHANGED <<fsVars, scopeVars, saves, digest, ret, runVars, installVars, pureVars>>

\* ------------------------------------------------------- resolve_from_lock
Or(a, b) == IF a # 0 THEN a ELSE b
Min(a, b) == IF a <= b THEN a ELSE b
\* Mutant: the pool is not capped by MAX_PARALLEL_DOWNLOADS.
MaxThreadsUncapped(n, jobs, cpus) ==
    Min(Or(n, 1), 4 * Or(jobs, Or(cpus, 1)))

\* max_threads: `x or y` is y when x is None or 0.
MaxThreads(n, jobs, cpus) ==
    Min(Or(n, 1), Min(MAX_PARALLEL_DOWNLOADS, 4 * Or(jobs, Or(cpus, 1))))

RunTasks == 1..Len(arts)
InFlight == {t \in RunTasks : pc[t] \notin {"idle", "done"}}

\* A call of resolve_from_lock.  One orchestrator runs at a time in the
\* process; a later run starts when the earlier one has returned, with fresh
\* locals.
StartRun ==
    /\ runpc \in {"idle", "done"}
    /\ runNo < MaxRuns
    /\ runNo' = runNo + 1
    /\ \E as \in ArtifactLists : arts' = as
    /\ runpc' = "map"
    /\ result' = NoRunResult
    /\ pc' = [t \in Tasks |-> IF t \in StoreTasks THEN "idle" ELSE pc[t]]
    /\ excl' = [t \in Tasks |-> IF t \in StoreTasks THEN FALSE ELSE excl[t]]
    /\ work' = [t \in Tasks |-> IF t \in StoreTasks THEN NoDir ELSE work[t]]
    /\ fin' = [t \in Tasks |-> IF t \in StoreTasks THEN FALSE ELSE fin[t]]
    /\ errno' = [t \in Tasks |-> IF t \in StoreTasks THEN "" ELSE errno[t]]
    /\ outcome' = [t \in Tasks |-> IF t \in StoreTasks THEN "none" ELSE outcome[t]]
    /\ digest' = [t \in StoreTasks |-> ""]
    /\ ret' = [t \in StoreTasks |-> NoResult]
    /\ installs' = {}
    /\ UNCHANGED <<fsVars, plan, source, saves, wheels, pureVars>>

\* pool.map hands the artifacts to the pool's threads in order; a task runs
\* download_artifact, which calls store under an exclusive scope.
Dispatch(t) ==
    /\ runpc = "map"
    /\ t \in RunTasks
    /\ pc[t] = "idle"
    /\ \A u \in RunTasks : u < t => pc[u] # "idle"
    /\ Cardinality(InFlight) < MaxThreads(Len(arts), MaxParallelJobs, CpuCount)
    /\ excl' = [excl EXCEPT ![t] = TRUE]
    /\ pc' = [pc EXCEPT ![t] = "lock"]
    /\ UNCHANGED <<fsVars, plan, work, fin, errno, outcome, storeVars, runVars, installVars, pureVars>>

\* download_results: zip(downloadable_artifacts, pool.map(...)).
DownloadResults ==
    [i \in 1..Len(arts) |-> [artifact |-> arts[i], result |-> TaskResult(i)]]

\* The loop that fills download_errors, an OrderedDict in insertion order.
RECURSIVE DownloadErrors(_)
DownloadErrors(results) ==
    IF results = <<>> THEN <<>>
    ELSE LET rest == DownloadErrors(Tail(results))
         IN IF Head(results).result.status = "ok" THEN rest
            ELSE <<Head(results)>> \o rest

\* Mutant: enumerate(...) without start=1.
ErrorDetailsFromZero(errors) ==
    [i \in 1..Len(errors) |->
        [index |-> i - 1, pin |-> errors[i].artifact.pin,
         url |-> errors[i].artifact.url, error |-> errors[i].result]]

\* "{index}. {pin} from {url}\n    {error}" for enumerate(..., start=1).
ErrorDetails(errors) ==
    [i \in 1..Len(errors) |->
        [index |-> i, pin |-> errors[i].artifact.pin, url |-> errors[i].artifact.url,
         error |-> errors[i].result]]

Pluralize(n, noun) == IF n = 1 THEN noun ELSE noun \o "s"

Categorized(results) ==
    LET errors == DownloadErrors(results)
    IN IF errors # <<>>
       THEN [kind |-> "Error", count |-> Len(errors),
             were |-> IF Len(errors) = 1 THEN "was" ELSE "were",
             errors |-> Pluralize(Len(errors), "error"),
             details |-> ErrorDetails(errors)]
       ELSE [kind |-> "Downloaded", count |-> 0, were |-> "", errors |-> "",
             details |-> <<>>]

\* Mutant: the results are evaluated as soon as one task has failed; its
\* peers are not waited for.
CategorizeOnFirstFailure ==
    /\ runpc = "map"
    /\ \/ \A t \in RunTasks : pc[t] = "done"
       \/ \E t \in RunTasks : pc[t] = "done" /\ TaskResult(t).status # "ok"
    /\ result' = Categorized(DownloadResults)
    /\ runpc' = IF Categorized(DownloadResults).kind = "Error" THEN "done" ELSE "install"
    /\ UNCHANGED <<fsVars, scopeVars, storeVars, runNo, arts, installVars, pureVars>>

\* After pool.map returned: categorise, and return the Error if any task failed.
Categorize ==
    /\ runpc = "map"
    /\ \A t \in RunTasks : pc[t] = "done"
    /\ result' = Categorized(DownloadResults)
    /\ runpc' = IF Categorized(DownloadResults).kind = "Error" THEN "done" ELSE "install"
    /\ UNCHANGED <<fsVars, scopeVars, storeVars, runNo, arts, installVars, pureVars>>

\* ------------------------------------------------ build and install requests
\* The extension str.endswith looks at, for the file names of the model.
Extension(name) ==
    CASE name = "p1.whl" -> ".whl"
      [] name = "p2.zip" -> ".zip"
      [] name = "p2-1.0-py3-none-any.whl" -> ".whl"
      [] OTHER -> ""

IsWheelPath(path) == path # <<>> /\ Extension(path[Len(path)]) = ".whl"

\* Mutant: every downloaded artifact becomes an install request.
InstallRequestsAll == RunTasks

\* install_requests: the downloaded artifacts whose path ends with ".whl";
\* build_requests: all the others.
InstallRequests == {i \in RunTasks : IsWheelPath(TaskResult(i).path)}
BuildRequests == RunTasks \ InstallRequests

\* builds/<fingerprint>/<wheel-filename>: where the wheel built from the source
\* artifact of request i is published.
WheelName(name) == IF name = "p2.zip" THEN "p2-1.0-py3-none-any.whl" ELSE name
BuiltWheel(i) == <<"builds", arts[i].key, WheelName(TaskResult(i).path[2])>>

\* The wheel the install of request i refers to.
WheelPath(i) == IF i \in InstallRequests THEN TaskResult(i).path ELSE BuiltWheel(i)

\* Whether the path is that of a finalized cache entry's file.
PathExists(path) ==
    IF path[1] = "builds"
    THEN path \in wheels
    ELSE /\ target[path[1]].exists
         /\ \E f \in target[path[1]].files : f.name = path[2]

\* A build request: the wheel is built from the downloaded source and published
\* in the builds cache (nothing to do when it is there already), or the build
\* fails and the run ends with the error.
BuildWheel(i) ==
    /\ runpc = "install"
    /\ i \in BuildRequests
    /\ BuiltWheel(i) \notin wheels
    /\ \/ /\ wheels' = wheels \cup {BuiltWheel(i)}
          /\ UNCHANGED <<runpc, result>>
       \/ /\ runpc' = "done"
          /\ result' = [result EXCEPT !.kind = "BuildError"]
          /\ UNCHANGED wheels
    /\ UNCHANGED <<fsVars, scopeVars, storeVars, runNo, arts, installs, pureVars>>

\* Mutant: the install of a built distribution does not wait for its build.
InstallWheelUnbuilt(i) ==
    /\ runpc = "install"
    /\ i \in RunTasks
    /\ WheelPath(i) \notin installs
    /\ installs' = installs \cup {WheelPath(i)}
    /\ \/ UNCHANGED <<runpc, result>>
       \/ /\ runpc' = "done"
          /\ result' = [result EXCEPT !.kind = "InstallError"]
    /\ UNCHANGED <<fsVars, scopeVars, storeVars, runNo, arts, wheels, pureVars>>

\* An install starts for a request whose wheel is in the cache: downloaded, or
\* built by now.  The install succeeds, or fails and ends the run.
InstallWheel(i) ==
    /\ runpc = "install"
    /\ i \in RunTasks
    /\ WheelPath(i) \notin installs
    /\ PathExists(WheelPath(i))
    /\ installs' = installs \cup {WheelPath(i)}
    /\ \/ UNCHANGED <<runpc, result>>
       \/ /\ runpc' = "done"
          /\ result' = [result EXCEPT !.kind = "InstallError"]
    /\ UNCHANGED <<fsVars, scopeVars, storeVars, runNo, arts, wheels, pureVars>>

\* Every distribution is installed: resolve_from_lock returns Installed.
ReturnInstalled ==
    /\ runpc = "install"
    /\ \A i \in RunTasks : WheelPath(i) \in installs
    /\ runpc' = "done"
    /\ result' = [result EXCEPT !.kind = "Installed"]
    /\ UNCHANGED <<fsVars, scopeVars, storeVars, runNo, arts, installVars, pureVars>>

Next ==
    \/ StartRun
    \/ Categorize
    \/ ReturnInstalled
    \/ \E k \in StoreKeys : SourceChange(k)
    \/ \E t \in StoreTasks :
        \/ BuildWheel(t)
        \/ InstallWheel(t)
        \/ Dispatch(t)
        \/ Acquire(t)
        \/ Enter(t)
        \/ StoreLoad(t)
        \/ Save(t)
        \/ Verify(t)
        \/ Finalize(t)
        \/ Cleanup(t)
        \/ Release(t)

Spec == Init /\ [][Next]_vars

\* ------------------------------------------------ the download thread pool
\* resolve_from_lock with any number of downloadable artifacts and any
\* max_parallel_jobs; a download task is taken for what the pool sees of it:
\* it is handed to a free thread and returns.
InitPool ==
    /\ CoreInit
    /\ \A k \in StoreKeys : source[k] = "c1"
    /\ poolLen \in 0..MaxLen
    /\ poolJobs \in 0..MaxJobs
    /\ poolCpus \in 0..CpuCount
    /\ poolSize = 0
    /\ poolSent = 0
    /\ poolInFlight = 0
    /\ notPoolIdle

\* pool = ThreadPool(processes=max_threads)
PoolCreate ==
    /\ poolSize = 0
    /\ poolSize' = MaxThreads(poolLen, poolJobs, poolCpus)
    /\ UNCHANGED <<notPoolVars, poolLen, poolJobs, poolCpus, poolSent, poolInFlight>>

\* pool.map: the next artifact goes to a thread that is free.
PoolDispatch ==
    /\ poolSize > 0
    /\ poolSent < poolLen
    /\ poolInFlight < poolSize
    /\ poolSent' = poolSent + 1
    /\ poolInFlight' = poolInFlight + 1
    /\ UNCHANGED <<notPoolVars, poolLen, poolJobs, poolCpus, poolSize>>

\* download_artifact returns; its thread is free again.
PoolTaskReturn ==
    /\ poolInFlight > 0
    /\ poolInFlight' = poolInFlight - 1
    /\ UNCHANGED <<notPoolVars, poolLen, poolJobs, poolCpus, poolSize, poolSent>>

NextPool ==
    \/ PoolCreate
    \/ PoolDispatch
    \/ PoolTaskReturn

SpecPool == InitPool /\ [][NextPool]_vars

\* ------------------------------------------- _RankedLock.rank and _select
\* Compatibility tags are (interpreter, abi, platform) triples.
Tag(interpreter) == <<interpreter, "none", "any">>
TagUniverse == {Tag("py2"), Tag("py3"), Tag("cp3")}

\* target.get_supported_tags(): best first, no tag twice.
SupportedTagLists ==
    {l \in UNION {[1..n -> TagUniverse] : n \in 0..MaxTags} :
        \A i, j \in DOMAIN l : i # j => l[i] # l[j]}

\* Artifacts by what rank reads of them: the extension of the URL path's base
\* name and, for a wheel, the compressed tag set of the file name.
Wheel(interpreters) ==
    [ext |-> ".whl", interpreters |-> interpreters, abis |-> {"none"}, platforms |-> {"any"}]
NonWheel(ext) == [ext |-> ext, interpreters |-> {}, abis |-> {}, platforms |-> {}]

SdistExtensions == {".sdist", ".tar.gz", ".tgz", ".tar.bz2", ".tbz2", ".zip"}

\* tags.parse_tag: every tag of a compressed tag set such as py2.py3-none-any.
ParseTag(artifact) ==
    {<<i, a, p>> : i \in artifact.interpreters, a \in artifact.abis,
                   p \in artifact.platforms}

\* The locked requirements the resolves of the model are made of: each the set
\* of its artifacts (iter_artifacts).
ResolveShapes ==
    << <<>>,
       <<{Wheel({"py3"})}>>,
       <<{Wheel({"py2"})}>>,
       <<{NonWheel(".tar.gz")}>>,
       <<{NonWheel("")}>>,
       <<{Wheel({"py2", "py3"}), NonWheel("")}>>,
       <<{Wheel({"cp3"}), NonWheel(".zip")}>>,
       <<{Wheel({"py3"})}, {NonWheel(".tar.gz")}>>,
       <<{Wheel({"py2"})}, {Wheel({"py3"})}>>,
       <<{Wheel({"py3"})}, {NonWheel("")}>> >>

\* str(platform_tag) as a sequence of character codes: "a", "ab", "b".
PlatformTags == {<<1>>, <<1, 2>>, <<2>>}

LockedResolve(tag, reqs) == [platform_tag |-> tag, locked_requirements |-> reqs]
LockedResolves ==
    {LockedResolve(tag, ResolveShapes[i]) : tag \in PlatformTags, i \in DOMAIN ResolveShapes}

\* supported_tags: tag -> index, 0 for the best.
SupportedRank(tags, tag) == (CHOOSE i \in DOMAIN tags : tags[i] = tag) - 1
IsSupported(tags, tag) == \E i \in DOMAIN tags : tags[i] = tag

\* Mutant: an sdist ranks as the best wheel does.
ArtifactRanksSdistBest(req, tags) ==
    UNION {IF artifact.ext \in SdistExtensions
           THEN {0}
           ELSE IF artifact.ext = ".whl"
           THEN {SupportedRank(tags, tag) :
                    tag \in {g \in ParseTag(artifact) : IsSupported(tags, g)}}
           ELSE {} : artifact \in req}

\* The ranks the artifacts of one locked requirement score.
ArtifactRanks(req, tags) ==
    UNION {IF artifact.ext \in SdistExtensions
           THEN {Len(tags)}
           ELSE IF artifact.ext = ".whl"
           THEN {SupportedRank(tags, tag) :
                    tag \in {g \in ParseTag(artifact) : IsSupported(tags, g)}}
           ELSE {} : artifact \in req}

MinOf(ranks) == CHOOSE r \in ranks : \A q \in ranks : r <= q

\* Mutant: the requirement ranks are summed from each requirement's worst
\* artifact.
RECURSIVE SumOfWorstRanks(_, _)
SumOfWorstRanks(reqs, tags) ==
    IF reqs = <<>> THEN 0
    ELSE LET ranks == ArtifactRanks(Head(reqs), tags)
         IN (CHOOSE r \in ranks : \A q \in ranks : r >= q)
                + SumOfWorstRanks(Tail(reqs), tags)

RECURSIVE SumRanks(_, _)
SumRanks(reqs, tags) ==
    IF reqs = <<>> THEN 0
    ELSE MinOf(ArtifactRanks(Head(reqs), tags)) + SumRanks(Tail(reqs), tags)

NoRank == [ranked |-> FALSE, sum |-> 0, count |-> 0, locked_resolve |-> <<>>]

\* Mutant: a requirement without a usable artifact is passed over.
RankSkipsUnusable(resolve, tags) ==
    LET reqs == resolve.locked_requirements
        usable == SelectSeq(reqs, LAMBDA req : ArtifactRanks(req, tags) # {})
    IN IF usable = <<>>
       THEN NoRank
       ELSE [ranked |-> TRUE, sum |-> SumRanks(usable, tags), count |-> Len(reqs),
             locked_resolve |-> resolve]

\* _RankedLock.rank: None (NoRank) when a requirement has no usable artifact or
\* the resolve has no requirement; else average_requirement_rank = sum / count.
Rank(resolve, tags) ==
    LET reqs == resolve.locked_requirements
    IN IF \E i \in DOMAIN reqs : ArtifactRanks(reqs[i], tags) = {}
       THEN NoRank
       ELSE IF reqs = <<>>
       THEN NoRank
       ELSE [ranked |-> TRUE, sum |-> SumRanks(reqs, tags), count |-> Len(reqs),
             locked_resolve |-> resolve]

\* Lexicographic order of strings.
RECURSIVE LexLess(_, _)
LexLess(a, b) ==
    IF b = <<>> THEN FALSE
    ELSE IF a = <<>> THEN TRUE
    ELSE IF Head(a) # Head(b) THEN Head(a) < Head(b)
    ELSE LexLess(Tail(a), Tail(b))

ShapeIndex(reqs) == CHOOSE i \in DOMAIN ResolveShapes : ResolveShapes[i] = reqs

\* Order of LockedResolve values: by str(platform_tag), then by the locked
\* requirements.
ResolveLess(a, b) ==
    \/ LexLess(a.platform_tag, b.platform_tag)
    \/ /\ a.platform_tag = b.platform_tag
       /\ ShapeIndex(a.locked_requirements) < ShapeIndex(b.locked_requirements)

\* Order of _RankedLock values: by average_requirement_rank, then by the
\* locked resolve.
AverageLess(x, y) == x.sum * y.count < y.sum * x.count
RankedLess(x, y) ==
    \/ AverageLess(x, y)
    \/ /\ ~AverageLess(y, x)
       /\ ResolveLess(x.locked_resolve, y.locked_resolve)

\* SortedTuple(locked_resolves)
RECURSIVE SortedTuple(_)
SortedTuple(resolves) ==
    IF resolves = <<>> THEN <<>>
    ELSE LET x == Head(resolves)
             rest == SortedTuple(Tail(resolves))
         IN SelectSeq(rest, LAMBDA y : ~ResolveLess(x, y)) \o <<x>>
            \o SelectSeq(rest, LAMBDA y : ResolveLess(x, y))

\* sorted(ranked_locks)
RECURSIVE SortedRanked(_)
SortedRanked(ranked) ==
    IF ranked = <<>> THEN <<>>
    ELSE LET x == Head(ranked)
             rest == SortedRanked(Tail(ranked))
         IN SelectSeq(rest, LAMBDA y : ~RankedLess(x, y)) \o <<x>>
            \o SelectSeq(rest, LAMBDA y : RankedLess(x, y))

\* ranked_locks: the ranks of the lock's resolves that are not None, in the
\* order of the lock.
RankedLocks(resolves, tags) ==
    SelectSeq([i \in DOMAIN resolves |-> Rank(resolves[i], tags)],
              LAMBDA r : r.ranked)

\* Mutant: the first ranked lock is taken, unsorted.
SelectFirstRanked(resolves, tags) ==
    LET ranked == RankedLocks(resolves, tags)
    IN IF ranked = <<>> THEN <<>> ELSE <<ranked[1].locked_resolve>>

\* Lockfile._select: <<>> for None, else the one selected resolve.
Select(resolves, tags) ==
    LET ranked == RankedLocks(resolves, tags)
    IN IF ranked = <<>> THEN <<>> ELSE <<SortedRanked(ranked)[1].locked_resolve>>

InitSelect ==
    /\ CoreInit
    /\ \A k \in StoreKeys : source[k] = "c1"
    /\ notSelIdle
    /\ selSupplied \in UNION {[1..n -> LockedResolves] : n \in 1..MaxResolves}
    /\ selTags \in SupportedTagLists
    /\ selpc = "start"
    /\ selLock = <<>>
    /\ selRanks = <<>>
    /\ selYield = <<>>
    /\ selOutcome = ""

\* Lockfile.create
LockfileCreate ==
    /\ selpc = "start"
    /\ selLock' = SortedTuple(selSupplied)
    /\ selpc' = "created"
    /\ UNCHANGED <<notSelVars, selSupplied, selTags, selRanks, selYield, selOutcome>>

\* _select computes percent = (count - average_requirement_rank) / count for
\* the log line whenever a lock was ranked, count being len(supported_tags):
\* the division raises when count is 0.
PercentRaises(resolves, tags) ==
    /\ RankedLocks(resolves, tags) # <<>>
    /\ Len(tags) = 0

\* Lockfile.select for the target: the pair is yielded when _select found a
\* lock; a target without one is passed over; ZeroDivisionError leaves select
\* when the log line cannot be computed.
LockfileSelect ==
    /\ selpc = "created"
    /\ selRanks' = [i \in DOMAIN selLock |-> Rank(selLock[i], selTags)]
    /\ selYield' = IF PercentRaises(selLock, selTags) THEN <<>>
                   ELSE Select(selLock, selTags)
    /\ selOutcome' = IF PercentRaises(selLock, selTags) THEN "ZeroDivisionError"
                     ELSE IF Select(selLock, selTags) # <<>> THEN "yielded"
                     ELSE "omitted"
    /\ selpc' = "selected"
    /\ UNCHANGED <<notSelVars, selSupplied, selTags, selLock>>

NextSelect ==
    \/ LockfileCreate
    \/ LockfileSelect

SpecSelect == InitSelect /\ [][NextSelect]_vars

\* ----------------------------------------------------------- lock subset
MaxDeps == 2

\* The locked requirements of the lock, by project name.
Projects == {"ansicolors", "colorama", "pywin32"}

\* The values of sys_platform among the targets.
Platforms == {"linux", "win32"}

\* A requirement carries no marker or one comparing sys_platform.
NoMarker == [op |-> "", value |-> ""]
Markers == {NoMarker} \cup [op : {"==", "!="}, value : {"win32"}]

\* The marker environment derived from a target.
MarkerEnvironment(platform) == [sys_platform |-> platform]

\* Marker evaluation under an environment; no marker counts as true.
Evaluate(marker, env) ==
    CASE marker.op = "" -> TRUE
      [] marker.op = "==" -> env.sys_platform = marker.value
      [] marker.op = "!=" -> env.sys_platform # marker.value

\* The root requirements of a run: at most one requirement per project.
RootSets ==
    {roots \in SUBSET [project : Projects, marker : Markers] :
        /\ roots # {}
        /\ \A a, b \in roots : a.project = b.project => a = b}

\* The dependencies recorded in the lock.
DepSets ==
    {deps \in SUBSET {d \in [from : Projects, to : Projects, marker : Markers] :
                          d.from # d.to} :
        Cardinality(deps) <= MaxDeps}

\* Step 1: the root requirements whose marker holds for the target.
SubsetRoots(roots, env) ==
    {r.project : r \in {x \in roots : Evaluate(x.marker, env)}}

\* The closure with every recorded dependency followed, marker or not.
RECURSIVE ClosureAllDependencies(_, _, _)
ClosureAllDependencies(included, deps, env) ==
    LET more == {d.to : d \in {e \in deps : e.from \in included}}
    IN  IF more \subseteq included
        THEN included
        ELSE ClosureAllDependencies(included \cup more, deps, env)

\* Step 2: repeatedly add the dependencies of the included locked
\* requirements whose marker holds for the target.
RECURSIVE Closure(_, _, _)
Closure(included, deps, env) ==
    LET more == {d.to : d \in {e \in deps : /\ e.from \in included
                                            /\ Evaluate(e.marker, env)}}
    IN  IF more \subseteq included
        THEN included
        ELSE Closure(included \cup more, deps, env)

\* The projects of the subset resolved for one target.
Subset(roots, deps, platform) ==
    Closure(SubsetRoots(roots, MarkerEnvironment(platform)), deps,
            MarkerEnvironment(platform))

\* downloadable_artifacts: the artifacts of every target's subset, each once.
DownloadableArtifacts == UNION {subSubsets[t] : t \in DOMAIN subSubsets}

InitSubset ==
    /\ CoreInit
    /\ \A k \in StoreKeys : source[k] = "c1"
    /\ notSubIdle
    /\ subRoots \in RootSets
    /\ subDeps \in DepSets
    /\ subTargets \in (SUBSET Platforms) \ {{}}
    /\ subpc = "start"
    /\ subSubsets = <<>>
    /\ subDownloaded = {}

\* subset(targets=targets, lock=lock, ...): one resolved subset per target.
SubsetTargets ==
    /\ subpc = "start"
    /\ subSubsets' = [t \in subTargets |-> Subset(subRoots, subDeps, t)]
    /\ subpc' = "subset"
    /\ UNCHANGED <<notSubVars, subRoots, subDeps, subTargets, subDownloaded>>

\* A pool task downloads one of the downloadable artifacts.
SubsetDownload(p) ==
    /\ subpc = "subset"
    /\ p \in DownloadableArtifacts \ subDownloaded
    /\ subDownloaded' = subDownloaded \cup {p}
    /\ UNCHANGED <<notSubVars, subRoots, subDeps, subTargets, subpc, subSubsets>>

\* pool.map has returned: every downloadable artifact was attempted.
SubsetDownloadsDone ==
    /\ subpc = "subset"
    /\ subDownloaded = DownloadableArtifacts
    /\ subpc' = "done"
    /\ UNCHANGED <<notSubVars, subRoots, subDeps, subTargets, subSubsets, subDownloaded>>

NextSubset ==
    \/ SubsetTargets
    \/ \E p \in Projects : SubsetDownload(p)
    \/ SubsetDownloadsDone

SpecSubset == InitSubset /\ [][NextSubset]_vars

\* -------------------------------------------------------- content digest
MaxEdits == 2

\* The files a tree can hold, as sequences of path components.
TreePaths ==
    { <<"setup.py">>,
      <<"colors", "__init__.py">>,
      <<"colors", "__init__.pyc">>,
      <<"colors", "__init__.pyo">>,
      <<"colors", "__pycache__", "__init__.pyc">>,
      <<"__pycache__", "setup.py">>,
      <<".git", "index">>,
      <<".hg", "dirstate">> }

\* File contents, as sequences of bytes.
FileContents == { <<"a">>, <<"a", "LF">>, <<"a", "LF", "b">> }

\* The names of TreePaths in sorted order.
SortedNames ==
    << ".git", ".hg", "__init__.py", "__init__.pyc", "__init__.pyo",
       "__pycache__", "colors", "dirstate", "index", "setup.py" >>
NameIndex(name) == CHOOSE i \in DOMAIN SortedNames : SortedNames[i] = name
PathLess(p, q) ==
    LexLess([i \in DOMAIN p |-> NameIndex(p[i])], [i \in DOMAIN q |-> NameIndex(q[i])])

\* The extension of a file name.
NameSuffix(name) ==
    CASE name = "__init__.pyc" -> ".pyc"
      [] name = "__init__.pyo" -> ".pyo"
      [] name \in {"__init__.py", "setup.py"} -> ".py"
      [] OTHER -> ""

\* filter_pyc_dirs and filter_pyc_files: the names that are retained.
FilterPycDirs(dirs) == {d \in dirs : d # "__pycache__"}
FilterPycFiles(files) == {f \in files : NameSuffix(f) \notin {".pyc", ".pyo"}}

\* vcs_control_dir = ".{vcs}"
VcsControlDir(vcs) ==
    CASE vcs = "git" -> ".git"
      [] vcs = "hg" -> ".hg"

\* Mutant: the dir_filter of digest_vcs_archive without the control directory.
VcsDirFilterPycOnly(vcs, dirs) == FilterPycDirs(dirs)

\* dir_filter of digest_vcs_archive.
VcsDirFilter(vcs, dirs) == {d \in FilterPycDirs(dirs) : d # VcsControlDir(vcs)}

\* The dir_filter in use: that of a local project or that of a VCS archive.
DirFilter(vcs, dirs) ==
    IF vcs = "" THEN FilterPycDirs(dirs) ELSE VcsDirFilter(vcs, dirs)

\* The walk of dir_hash below the directory prefix: the retained files of
\* the directory and the walk of each of its retained directories.
RECURSIVE IterFiles(_, _, _)
IterFiles(paths, prefix, vcs) ==
    LET n == Len(prefix)
        below == {q \in paths : Len(q) > n /\ SubSeq(q, 1, n) = prefix}
        files == {q[n + 1] : q \in {r \in below : Len(r) = n + 1}}
        dirs == {q[n + 1] : q \in {r \in below : Len(r) > n + 1}}
    IN  {prefix \o <<f>> : f \in FilterPycFiles(files)}
        \cup UNION {IterFiles(paths, prefix \o <<d>>, vcs) : d \in DirFilter(vcs, dirs)}

\* The retained file paths in sorted order.
RECURSIVE SortedPaths(_)
SortedPaths(paths) ==
    IF paths = {} THEN <<>>
    ELSE LET first == CHOOSE p \in paths : \A q \in paths \ {p} : PathLess(p, q)
         IN <<first>> \o SortedPaths(paths \ {first})

\* The framing of one file: its NUL-separated path, LF, its contents, LF.
RECURSIVE JoinPath(_)
JoinPath(path) ==
    IF Len(path) = 1 THEN path
    ELSE <<Head(path), "NUL">> \o JoinPath(Tail(path))
Framed(path, contents) == JoinPath(path) \o <<"LF">> \o contents \o <<"LF">>

RECURSIVE FeedFiles(_, _)
FeedFiles(sorted, tree) ==
    IF sorted = <<>> THEN <<>>
    ELSE Framed(Head(sorted), tree[Head(sorted)].contents) \o FeedFiles(Tail(sorted), tree)

\* dir_hash: what the digest is fed for the tree. The hash is taken to be
\* collision free, so the digest stands for the bytes it was fed.
DirHash(vcs, tree) == FeedFiles(SortedPaths(IterFiles(DOMAIN tree, <<>>, vcs)), tree)

\* The tree as cloned or extracted.
TreeFile(contents, mtime) == [contents |-> contents, mtime |-> mtime]
SourceTree(vcs) ==
    LET paths == {<<"setup.py">>, <<"colors", "__init__.py">>}
                 \cup {p \in TreePaths : vcs # "" /\ p[1] = VcsControlDir(vcs)}
    IN [p \in paths |-> TreeFile(<<"a">>, 0)]

InitDigest ==
    /\ CoreInit
    /\ \A k \in StoreKeys : source[k] = "c1"
    /\ notDirIdle
    /\ dirVcs \in {"", "git", "hg"}
    /\ dirTree = SourceTree(dirVcs)
    /\ dirDigest = DirHash(dirVcs, dirTree)
    /\ dirEdits = 0

\* What every change ends with: the tree is hashed again.
Rehash ==
    /\ dirDigest' = DirHash(dirVcs, dirTree')
    /\ dirEdits' = dirEdits + 1
    /\ UNCHANGED <<notDirVars, dirVcs>>

\* touch(path): only the modification time of the file changes.
TouchFile(p) ==
    /\ dirEdits < MaxEdits
    /\ p \in DOMAIN dirTree
    /\ dirTree' = [dirTree EXCEPT ![p].mtime = dirEdits + 1]
    /\ Rehash

\* The file is rewritten with other contents.
WriteFile(p, c) ==
    /\ dirEdits < MaxEdits
    /\ p \in DOMAIN dirTree
    /\ c # dirTree[p].contents
    /\ dirTree' = [dirTree EXCEPT ![p] = TreeFile(c, dirEdits + 1)]
    /\ Rehash

\* A file appears, with the directories leading to it.
AddFile(p, c) ==
    /\ dirEdits < MaxEdits
    /\ p \notin DOMAIN dirTree
    /\ dirTree' = [q \in DOMAIN dirTree \cup {p} |->
                      IF q = p THEN TreeFile(c, dirEdits + 1) ELSE dirTree[q]]
    /\ Rehash

\* A file disappears; a directory goes with its last file.
RemoveFile(p) ==
    /\ dirEdits < MaxEdits
    /\ p \in DOMAIN dirTree
    /\ dirTree' = [q \in DOMAIN dirTree \ {p} |-> dirTree[q]]
    /\ Rehash

NextDigest ==
    \/ \E p \in TreePaths : TouchFile(p)
    \/ \E p \in TreePaths : \E c \in FileContents : WriteFile(p, c)
    \/ \E p \in TreePaths : \E c \in FileContents : AddFile(p, c)
    \/ \E p \in TreePaths : RemoveFile(p)

SpecDigest == InitDigest /\ [][NextDigest]_vars

\* ------------------------------------------------- lockfile round trip
MaxEvolves == 2

\* The attributes of Lockfile; all but source take part in equality.
AllFields ==
    { "pex_version", "style", "resolver_version", "requirements", "constraints",
      "allow_prereleases", "allow_wheels", "allow_builds", "prefer_older_binary",
      "use_pep517", "build_isolation", "transitive", "locked_resolves", "source" }

\* Mutant: source declared like every other attribute.
EqDefault(f) == TRUE

\* Whether the attribute takes part in the generated equality: attr.ib()
\* does by default, source is declared with eq=False.
Eq(f) == f # "source"
EqualityFields == {f \in AllFields : Eq(f)}

\* The equality attrs generates for Lockfile.
LockfileEq(a, b) == \A f \in EqualityFields : a[f] = b[f]

\* Enum values and requirements in memory.
LockStyle(value) == [enum |-> "LockStyle", value |-> value]
ResolverVersion(value) == [enum |-> "ResolverVersion", value |-> value]
Requirement(project, marker) == [project |-> project, marker |-> marker]
Ansicolors == Requirement("ansicolors", NoMarker)
Pywin32 == Requirement("pywin32", [op |-> "==", value |-> "win32"])

\* str(requirement), as the tokens of the string, and its parse.
RequirementStr(req) ==
    IF req.marker = NoMarker THEN <<req.project>>
    ELSE <<req.project, ";", "sys_platform", req.marker.op, req.marker.value>>
RequirementParse(str) ==
    IF Len(str) = 1 THEN Requirement(str[1], NoMarker)
    ELSE Requirement(str[1], [op |-> str[4], value |-> str[5]])

\* SortedTuple(requirements, key=str)
StrLess(a, b) ==
    LET key(r) == <<CHOOSE i \in 1..3 : <<"ansicolors", "colorama", "pywin32">>[i] = r.project,
                    IF r.marker = NoMarker THEN 0 ELSE 1>>
    IN LexLess(key(a), key(b))
RECURSIVE SortedByStr(_)
SortedByStr(reqs) ==
    IF reqs = <<>> THEN <<>>
    ELSE LET x == Head(reqs)
             rest == SortedByStr(Tail(reqs))
         IN SelectSeq(rest, LAMBDA y : ~StrLess(x, y)) \o <<x>>
            \o SelectSeq(rest, LAMBDA y : StrLess(x, y))

\* Lockfile.create: the tuples are sorted, the rest is taken as given.
Create(args) ==
    [args EXCEPT !.requirements = SortedByStr(@),
                 !.constraints = SortedByStr(@),
                 !.locked_resolves = SortedTuple(@)]

\* The locked resolves of the lockfiles considered.
UniversalResolve == LockedResolve(<<1>>, ResolveShapes[6])
SourcesResolve == LockedResolve(<<2>>, ResolveShapes[4])

\* The arguments of Lockfile.create.
CreateArgs ==
    { [ pex_version |-> "42",
        style |-> LockStyle("universal"),
        resolver_version |-> ResolverVersion("pip-2020-resolver"),
        requirements |-> reqs,
        constraints |-> <<>>,
        allow_prereleases |-> FALSE,
        allow_wheels |-> TRUE,
        allow_builds |-> TRUE,
        prefer_older_binary |-> FALSE,
        use_pep517 |-> "None",
        build_isolation |-> TRUE,
        transitive |-> TRUE,
        locked_resolves |-> resolves,
        source |-> src ] :
      reqs \in {<<Ansicolors>>, <<Pywin32, Ansicolors>>},
      resolves \in {<<UniversalResolve>>, <<SourcesResolve, UniversalResolve>>},
      src \in {"None", "old/lock.json"} }

\* The values attr.evolve may give an attribute.
FieldValues(f) ==
    CASE f = "pex_version" -> {"42", "2.1.80"}
      [] f = "style" -> {LockStyle("strict"), LockStyle("sources"), LockStyle("universal")}
      [] f = "resolver_version" ->
            {ResolverVersion("pip-legacy-resolver"), ResolverVersion("pip-2020-resolver")}
      [] f = "requirements" -> {<<Ansicolors>>, <<Ansicolors, Pywin32>>}
      [] f = "constraints" -> {<<>>, <<Ansicolors>>}
      [] f = "use_pep517" -> {"None", "True", "False"}
      [] f = "locked_resolves" -> {<<UniversalResolve>>, <<UniversalResolve, SourcesResolve>>}
      [] f = "source" -> {"None", "lock.json", "old/lock.json"}
      [] OTHER -> BOOLEAN

\* JSON values of booleans and of an optional boolean.
JsonBool(b) == IF b THEN "true" ELSE "false"
ParseBool(j) == j = "true"
JsonOptionalBool(b) ==
    CASE b = "None" -> "null" [] b = "True" -> "true" [] b = "False" -> "false"
ParseOptionalBool(j) ==
    CASE j = "null" -> "None" [] j = "true" -> "True" [] j = "false" -> "False"

\* The JSON document of a lockfile; source is not part of it.
AsJsonData(lf) ==
    [ pex_version |-> lf.pex_version,
      style |-> lf.style.value,
      resolver_version |-> lf.resolver_version.value,
      requirements |-> [i \in DOMAIN lf.requirements |-> RequirementStr(lf.requirements[i])],
      constraints |-> [i \in DOMAIN lf.constraints |-> RequirementStr(lf.constraints[i])],
      allow_prereleases |-> JsonBool(lf.allow_prereleases),
      allow_wheels |-> JsonBool(lf.allow_wheels),
      allow_builds |-> JsonBool(lf.allow_builds),
      prefer_older_binary |-> JsonBool(lf.prefer_older_binary),
      use_pep517 |-> JsonOptionalBool(lf.use_pep517),
      build_isolation |-> JsonBool(lf.build_isolation),
      transitive |-> JsonBool(lf.transitive),
      locked_resolves |->
          [i \in DOMAIN lf.locked_resolves |->
              <<lf.locked_resolves[i].platform_tag,
                lf.locked_resolves[i].locked_requirements>>] ]

\* The lockfile read from a document found at path.
Loads(doc, path) ==
    Create([ pex_version |-> doc.pex_version,
             style |-> LockStyle(doc.style),
             resolver_version |-> ResolverVersion(doc.resolver_version),
             requirements |-> [i \in DOMAIN doc.requirements |->
                                  RequirementParse(doc.requirements[i])],
             constraints |-> [i \in DOMAIN doc.constraints |->
                                 RequirementParse(doc.constraints[i])],
             allow_prereleases |-> ParseBool(doc.allow_prereleases),
             allow_wheels |-> ParseBool(doc.allow_wheels),
             allow_builds |-> ParseBool(doc.allow_builds),
             prefer_older_binary |-> ParseBool(doc.prefer_older_binary),
             use_pep517 |-> ParseOptionalBool(doc.use_pep517),
             build_isolation |-> ParseBool(doc.build_isolation),
             transitive |-> ParseBool(doc.transitive),
             locked_resolves |-> [i \in DOMAIN doc.locked_resolves |->
                                     LockedResolve(doc.locked_resolves[i][1],
                                                   doc.locked_resolves[i][2])],
             source |-> path ])

InitLockfile ==
    /\ CoreInit
    /\ \A k \in StoreKeys : source[k] = "c1"
    /\ notLfIdle
    /\ lfOrig \in {Create(args) : args \in CreateArgs}
    /\ lfLock = lfOrig
    /\ lfEvolves = 0
    /\ lfpc = "created"
    /\ lfDoc = <<>>
    /\ lfParsed = <<>>

\* attr.evolve(lockfile, field=value)
Evolve(f, value) ==
    /\ lfpc = "created"
    /\ lfEvolves < MaxEvolves
    /\ value # lfLock[f]
    /\ lfLock' = [lfLock EXCEPT ![f] = value]
    /\ lfEvolves' = lfEvolves + 1
    /\ UNCHANGED <<notLfVars, lfOrig, lfpc, lfDoc, lfParsed>>

\* json.dump(json_codec.as_json_data(lockfile), fp) to lock.json
Serialize ==
    /\ lfpc = "created"
    /\ lfDoc' = AsJsonData(lfLock)
    /\ lfpc' = "serialized"
    /\ UNCHANGED <<notLfVars, lfOrig, lfLock, lfEvolves, lfParsed>>

\* lockfile.load("lock.json")
Parse ==
    /\ lfpc = "serialized"
    /\ lfParsed' = Loads(lfDoc, "lock.json")
    /\ lfpc' = "parsed"
    /\ UNCHANGED <<notLfVars, lfOrig, lfLock, lfEvolves, lfDoc>>

NextLockfile ==
    \/ \E f \in AllFields : \E value \in FieldValues(f) : Evolve(f, value)
    \/ Serialize
    \/ Parse

SpecLockfile == InitLockfile /\ [][NextLockfile]_vars

\* ---------------------------------------------------------- path mappings
MaxUrls == 2

\* Path mapping names, in sorted() order.
MappingNames == <<"FL", "ansicolors", "other">>
NameRank(name) == CHOOSE i \in DOMAIN MappingNames : MappingNames[i] = name

\* A URL is a sequence of parts: literal text or a ${NAME} placeholder.
Text(value) == [kind |-> "text", value |-> value]
Placeholder(name) == [kind |-> "placeholder", value |-> name]
LockUrls ==
    { <<Text("file:///abs/p1.whl")>>,
      <<Text("file://"), Placeholder("ansicolors")>>,
      <<Text("file://"), Placeholder("FL"), Text("/p2.tar.gz")>>,
      <<Text("file://"), Placeholder("FL"), Text("/"), Placeholder("ansicolors")>> }

\* The values of --path-mapping on the command line, split at "|".
OptionLists ==
    { fl \o ansi \o other :
        fl \in {<<>>, << <<"FL", "/repo">> >>,
                << <<"FL", "/repo", "The find-links repo", "local">> >>},
        ansi \in {<<>>, << <<"ansicolors", "/over/here/ansicolors">> >>,
                  << <<"ansicolors", "/over/here/ansicolors", "The local clone">> >>},
        other \in {<<>>, << <<"other", "/x">> >>} }

\* _parse_path_mapping: split("|", 2), so that whatever follows the second
\* "|" is the description; <<>> stands for no description.
PathMapping(name, path, description) ==
    [name |-> name, path |-> path, description |-> description]
ParsePathMapping(components) ==
    PathMapping(components[1], components[2], SubSeq(components, 3, Len(components)))

\* get_path_mappings
GetPathMappings(options) == [i \in DOMAIN options |-> ParsePathMapping(options[i])]

\* The placeholder names the URLs of the lockfile hold.
PlaceholderNames(urls) ==
    UNION {{urls[i][j].value :
               j \in {k \in DOMAIN urls[i] : urls[i][k].kind = "placeholder"}} :
           i \in DOMAIN urls}

\* lockfile.load raises PathMappingError when a placeholder is left without
\* a mapping.
PathMappingError(urls, descriptions, mappings) ==
    LET required == PlaceholderNames(urls)
        given == {mappings[i].name : i \in DOMAIN mappings}
    IN [required_path_mappings |-> [n \in required |-> descriptions[n]],
        unspecified_paths |-> required \ given]

\* The path a mapping gives the name.
MappedPath(mappings, name) ==
    mappings[CHOOSE i \in DOMAIN mappings : mappings[i].name = name].path

\* lockfile.load when every placeholder has a mapping: the URLs with the
\* mapped paths in place of the placeholders.
LoadedUrls(urls, mappings) ==
    [i \in DOMAIN urls |->
        [j \in DOMAIN urls[i] |->
            IF urls[i][j].kind = "placeholder"
            THEN Text(MappedPath(mappings, urls[i][j].value))
            ELSE urls[i][j]]]

\* sorted(...) of lines that each start with a different name.
RECURSIVE SortedByName(_)
SortedByName(names) ==
    IF names = {} THEN <<>>
    ELSE LET first == CHOOSE n \in names : \A m \in names : NameRank(n) <= NameRank(m)
         IN <<first>> \o SortedByName(names \ {first})

\* Mutant: every required path mapping is listed as unspecified.
UnspecifiedAllRequired(e) == DOMAIN e.required_path_mappings

\* The names listed as left unspecified, and given an example for.
Unspecified(e) ==
    {path \in DOMAIN e.required_path_mappings : path \in e.unspecified_paths}

\* The Error parse_lockfile returns for a PathMappingError.
PathMappingErrorMessage(e, mappings) ==
    LET many == Cardinality(DOMAIN e.required_path_mappings) > 1
        line(path) == IF e.required_path_mappings[path] # ""
                      THEN <<path, ": ", e.required_path_mappings[path]>>
                      ELSE <<path>>
        sortedUnspecified == SortedByName(Unspecified(e))
    IN [kind |-> "Error",
        prefix |-> IF many THEN "" ELSE "a ",
        values |-> IF many THEN "values" ELSE "value",
        required_paths |-> SortedByName(DOMAIN e.required_path_mappings),
        given_mappings_verbiage |->
            IF mappings # <<>> THEN "the following path mappings:" ELSE "no path mappings.",
        maybe_path_mappings |->
            LET given == SortedByName({mappings[i].name : i \in DOMAIN mappings})
            IN [i \in DOMAIN given |-> <<given[i], "|", MappedPath(mappings, given[i])>>],
        unspecified_paths |-> [i \in DOMAIN sortedUnspecified |-> line(sortedUnspecified[i])],
        examples |-> [i \in DOMAIN sortedUnspecified |->
                         <<sortedUnspecified[i], "|<path of ", sortedUnspecified[i], ">">>]]

InitPaths ==
    /\ CoreInit
    /\ \A k \in StoreKeys : source[k] = "c1"
    /\ notPmIdle
    /\ pmUrls \in UNION {[1..n -> LockUrls] : n \in 1..MaxUrls}
    /\ pmDescriptions \in [{"FL", "ansicolors", "other"} -> {"", "The local clone"}]
    /\ pmDescriptions["other"] = ""
    /\ pmOptions \in OptionLists
    /\ pmpc = "start"
    /\ pmMappings = <<>>
    /\ pmRaised = <<>>
    /\ pmResult = <<>>

\* path_mappings = get_path_mappings(options)
ParseOptions ==
    /\ pmpc = "start"
    /\ pmMappings' = GetPathMappings(pmOptions)
    /\ pmpc' = "options"
    /\ UNCHANGED <<notPmVars, pmUrls, pmDescriptions, pmOptions, pmRaised, pmResult>>

\* return lockfile.load(path, path_mappings=path_mappings), no error raised
LoadReturns ==
    /\ pmpc = "options"
    /\ PathMappingError(pmUrls, pmDescriptions, pmMappings).unspecified_paths = {}
    /\ pmResult' = [kind |-> "Lockfile", urls |-> LoadedUrls(pmUrls, pmMappings)]
    /\ pmpc' = "done"
    /\ UNCHANGED <<notPmVars, pmUrls, pmDescriptions, pmOptions, pmMappings, pmRaised>>

\* lockfile.load raises PathMappingError
LoadRaises ==
    /\ pmpc = "options"
    /\ PathMappingError(pmUrls, pmDescriptions, pmMappings).unspecified_paths # {}
    /\ pmRaised' = PathMappingError(pmUrls, pmDescriptions, pmMappings)
    /\ pmpc' = "raised"
    /\ UNCHANGED <<notPmVars, pmUrls, pmDescriptions, pmOptions, pmMappings, pmResult>>

\* except lockfile.PathMappingError as e: return Error(...)
ReturnError ==
    /\ pmpc = "raised"
    /\ pmResult' = PathMappingErrorMessage(pmRaised, pmMappings)
    /\ pmpc' = "done"
    /\ UNCHANGED <<notPmVars, pmUrls, pmDescriptions, pmOptions, pmMappings, pmRaised>>

NextPaths ==
    \/ ParseOptions
    \/ LoadReturns
    \/ LoadRaises
    \/ ReturnError

SpecPaths == InitPaths /\ [][NextPaths]_vars

\* ------------------------------------------------- --path-mapping values
MaxChars == 6

\* The characters a value is made of: the pipe, the path separator, a letter.
ArgChars == {"|", "/", "a"}

\* str.split("|", maxsplit): at most maxsplit splits, from the left.
RECURSIVE Split(_, _)
Split(str, maxsplit) ==
    IF maxsplit = 0 \/ ~\E i \in DOMAIN str : str[i] = "|"
    THEN <<str>>
    ELSE LET i == CHOOSE j \in DOMAIN str :
                      str[j] = "|" /\ \A k \in 1..(j - 1) : str[k] # "|"
         IN <<SubSeq(str, 1, i - 1)>> \o Split(SubSeq(str, i + 1, Len(str)), maxsplit - 1)

\* os.path.isabs
IsAbs(path) == path # <<>> /\ Head(path) = "/"

InitArgs ==
    /\ CoreInit
    /\ \A k \in StoreKeys : source[k] = "c1"
    /\ notArgIdle
    /\ argValue \in UNION {[1..n -> ArgChars] : n \in 0..MaxChars}
    /\ argpc = "start"
    /\ argResult = <<>>

\* _parse_path_mapping raises ArgumentTypeError
PathMappingRejected ==
    /\ argpc = "start"
    /\ Len(Split(argValue, 2)) < 2
    /\ argResult' = [kind |-> "ArgumentTypeError", given |-> argValue]
    /\ argpc' = "done"
    /\ UNCHANGED <<notArgVars, argValue>>

\* _parse_path_mapping returns the PathMapping
PathMappingAccepted ==
    /\ argpc = "start"
    /\ Len(Split(argValue, 2)) >= 2
    /\ argResult' = [kind |-> "PathMapping",
                     mapping |-> ParsePathMapping(Split(argValue, 2))]
    /\ argpc' = "done"
    /\ UNCHANGED <<notArgVars, argValue>>

NextArgs ==
    \/ PathMappingRejected
    \/ PathMappingAccepted

SpecArgs == InitArgs /\ [][NextArgs]_vars

\* ------------------------------------------------------ PEP-517 build hooks
_HOOK_UNAVAILABLE_EXIT_CODE == 75

HookMethods == {"build_sdist", "prepare_metadata_for_build_wheel"}

\* Exit codes a subprocess may end with.
ExitCodes == {0, 1, 2, 74, 75, 76}

\* Mutant: every failed hook counts as unavailable.
IsHookFailedError(error) == error.exitcode # 0

\* is_hook_unavailable_error
IsHookUnavailableError(error) == error.exitcode = _HOOK_UNAVAILABLE_EXIT_CODE

\* Job.Error as await_result raises it for a non-zero exit.
JobError(exitcode, stderr) == [kind |-> "Job.Error", exitcode |-> exitcode, stderr |-> stderr]

InitHook ==
    /\ CoreInit
    /\ \A k \in StoreKeys : source[k] = "c1"
    /\ notHookIdle
    /\ hookMethod \in HookMethods
    /\ hookProject \in {"dir", "file", "missing"}
    /\ hookBackend \in SUBSET HookMethods
    /\ hookStderr \in {"", "Traceback", "error: command failed"}
    /\ hookpc = "start"
    /\ hookExit = -1
    /\ hookResult = <<>>
    /\ hookFallback = "unknown"

\* _invoke_build_hook returns an Error: no subprocess is spawned.
InvokeFails ==
    /\ hookpc = "start"
    /\ hookProject # "dir"
    /\ hookResult' = [kind |-> "Error",
                      message |-> IF hookProject = "missing"
                                  THEN <<"Project directory ", " does not exist.">>
                                  ELSE <<"Project directory ", " is not a directory.">>]
    /\ hookpc' = "done"
    /\ UNCHANGED <<notHookVars, hookMethod, hookProject, hookBackend, hookStderr,
                   hookExit, hookFallback>>

\* _invoke_build_hook spawns the subprocess.
InvokeBuildHook ==
    /\ hookpc = "start"
    /\ hookProject = "dir"
    /\ hookpc' = "spawned"
    /\ UNCHANGED <<notHookVars, hookMethod, hookProject, hookBackend, hookStderr,
                   hookExit, hookResult, hookFallback>>

\* The subprocess ends: sys.exit(75) when the backend lacks the hook, else
\* with whatever the hook makes of it.
HookExits(code) ==
    /\ hookpc = "spawned"
    /\ hookMethod \notin hookBackend => code = _HOOK_UNAVAILABLE_EXIT_CODE
    /\ hookExit' = code
    /\ hookpc' = "exited"
    /\ UNCHANGED <<notHookVars, hookMethod, hookProject, hookBackend, hookStderr,
                   hookResult, hookFallback>>

\* await_result returns: the result file's content reaches the caller.
AwaitReturns ==
    /\ hookpc = "exited"
    /\ hookExit = 0
    /\ hookResult' = [kind |-> IF hookMethod = "build_sdist" THEN "sdist" ELSE "DistMetadata",
                      message |-> <<>>]
    /\ hookpc' = "done"
    /\ UNCHANGED <<notHookVars, hookMethod, hookProject, hookBackend, hookStderr,
                   hookExit, hookFallback>>

\* build_sdist: except Job.Error as e: return Error(...)
BuildSdistFails ==
    /\ hookpc = "exited"
    /\ hookExit # 0
    /\ hookMethod = "build_sdist"
    /\ hookResult' = [kind |-> "Error",
                      message |-> [text |-> "Failed to build sdist for local project",
                                   err |-> JobError(hookExit, hookStderr),
                                   stderr |-> JobError(hookExit, hookStderr).stderr]]
    /\ hookpc' = "done"
    /\ UNCHANGED <<notHookVars, hookMethod, hookProject, hookBackend, hookStderr,
                   hookExit, hookFallback>>

\* The job of spawn_prepare_metadata raises its Job.Error to the caller.
AwaitRaises ==
    /\ hookpc = "exited"
    /\ hookExit # 0
    /\ hookMethod = "prepare_metadata_for_build_wheel"
    /\ hookResult' = JobError(hookExit, hookStderr)
    /\ hookpc' = "raised"
    /\ UNCHANGED <<notHookVars, hookMethod, hookProject, hookBackend, hookStderr,
                   hookExit, hookFallback>>

\* The caller asks is_hook_unavailable_error about the Job.Error it caught.
CallerChecks ==
    /\ hookpc = "raised"
    /\ hookFallback' = IF IsHookUnavailableError(hookResult) THEN "unavailable" ELSE "failed"
    /\ hookpc' = "done"
    /\ UNCHANGED <<notHookVars, hookMethod, hookProject, hookBackend, hookStderr,
                   hookExit, hookResult>>

NextHook ==
    \/ InvokeFails
    \/ InvokeBuildHook
    \/ \E code \in ExitCodes : HookExits(code)
    \/ AwaitReturns
    \/ BuildSdistFails
    \/ AwaitRaises
    \/ CallerChecks

SpecHook == InitHook /\ [][NextHook]_vars

\* ------------------------------------------------ installed distributions
\* The most distributions one run installs.
MaxInstalls == 3

\* The targets of the run, in the order given.
InstallTargets == <<"cp311-linux", "cp39-win32">>

DistributionRequests == Projects \X {InstallTargets[i] : i \in DOMAIN InstallTargets}

\* The order of project names.
ProjectNameRank(project) ==
    CHOOSE i \in 1..3 : <<"ansicolors", "colorama", "pywin32">>[i] = project

\* Mutant: the distributions are emitted as they completed.
CompletionOrder(dists) == dists

\* The installed distributions sorted by project name before emission: a
\* stable sort on the project name alone.
RECURSIVE SortedByProjectName(_)
SortedByProjectName(dists) ==
    IF dists = <<>> THEN <<>>
    ELSE LET last == dists[Len(dists)]
             rest == SortedByProjectName(SubSeq(dists, 1, Len(dists) - 1))
             key(d) == ProjectNameRank(d[1])
         IN SelectSeq(rest, LAMBDA d : key(d) <= key(last)) \o <<last>>
            \o SelectSeq(rest, LAMBDA d : key(d) > key(last))

InitInstall ==
    /\ CoreInit
    /\ \A k \in StoreKeys : source[k] = "c1"
    /\ notInstIdle
    /\ instRequests \in {rs \in SUBSET DistributionRequests : Cardinality(rs) \in 1..MaxInstalls}
    /\ instDone = <<>>
    /\ instResult = <<>>
    /\ instpc = "installing"

\* One build-and-install job completes; the jobs complete in any order.
InstallCompletes(r) ==
    /\ instpc = "installing"
    /\ r \in instRequests
    /\ \A i \in DOMAIN instDone : instDone[i] # r
    /\ instDone' = Append(instDone, r)
    /\ UNCHANGED <<notInstVars, instRequests, instResult, instpc>>

\* install_distributions returns once every job is done.
InstallDistributions ==
    /\ instpc = "installing"
    /\ Len(instDone) = Cardinality(instRequests)
    /\ instResult' = SortedByProjectName(instDone)
    /\ instpc' = "installed"
    /\ UNCHANGED <<notInstVars, instRequests, instDone>>

\* resolve_from_lock returns Installed(tuple(installed_distributions)).
ReturnInstalledDistributions ==
    /\ instpc = "installed"
    /\ instpc' = "returned"
    /\ UNCHANGED <<notInstVars, instRequests, instDone, instResult>>

NextInstall ==
    \/ \E r \in DistributionRequests : InstallCompletes(r)
    \/ InstallDistributions
    \/ ReturnInstalledDistributions

SpecInstall == InitInstall /\ [][NextInstall]_vars

\* ------------------------------------------------------- the cancel signal
\* The cancel signal is a KeyboardInterrupt raised in the main thread while
\* it waits in pool.map: every task was queued when map was called.
Interrupt ==
    /\ interrupted = "no"
    /\ poolSize > 0
    /\ poolSent < poolLen \/ poolInFlight > 0
    /\ interrupted' = "raised"
    /\ UNCHANGED <<notCancelVars>>

\* finally: pool.close(); pool.join(). close() leaves the queued tasks to the
\* worker threads (PoolDispatch, PoolTaskReturn) and join() returns once
\* every one of them is done; the exception then leaves resolve_from_lock.
PoolJoin ==
    /\ interrupted = "raised"
    /\ poolSent = poolLen
    /\ poolInFlight = 0
    /\ interrupted' = "propagated"
    /\ UNCHANGED <<notCancelVars>>

NextCancel ==
    \/ PoolCreate
    \/ PoolDispatch
    \/ PoolTaskReturn
    \/ Interrupt
    \/ PoolJoin

SpecCancel == InitPool /\ [][NextCancel]_vars

\* ---------------------------------------------------------- venv collisions
\* The most distributions in the PEX.
MaxDists == 2

\* The destination paths under the venv that distributions copy files to.
VenvPaths == {"site-packages/colors.py", "site-packages/ns/__init__.py"}

\* A distribution: the destination paths it provides with their contents.
Dists == UNION {[ps -> Contents] : ps \in SUBSET VenvPaths \ {{}}}

\* The ways populate_venv_with_pex is called: directly, with and without the
\* keyword, and from the venv tool command, with and without its flag.
VenvCalls ==
    {"populate_venv_with_pex()", "populate_venv_with_pex(collisions_ok=False)",
     "venv", "venv --collisions-ok"}

\* The value of collisions_ok the function body sees.
CollisionsOk(call) ==
    CASE call = "populate_venv_with_pex()" -> TRUE
      [] call = "populate_venv_with_pex(collisions_ok=False)" -> FALSE
      [] call = "venv" -> FALSE
      [] call = "venv --collisions-ok" -> TRUE

\* CacheHelper.hash(src) of a copied source file.
SourceHash(dists, src) == HexDigest(dists[src.dist][src.path])

\* potential_collisions: the destinations with more than one source.
PotentialCollisions(dists, provenance) ==
    {dst \in VenvPaths : Len(provenance[dst]) > 1}

\* Mutant: every potential collision is reported.
CollisionsWhateverTheHash(dists, provenance) ==
    {dst \in VenvPaths : Len(provenance[dst]) > 1}

\* collisions: the potential collisions whose sources hash to more than one
\* value.
Collisions(dists, provenance) ==
    {dst \in PotentialCollisions(dists, provenance) :
        Cardinality({SourceHash(dists, provenance[dst][i]) :
                        i \in DOMAIN provenance[dst]}) > 1}

InitVenv ==
    /\ CoreInit
    /\ \A k \in StoreKeys : source[k] = "c1"
    /\ notVenvIdle
    /\ venvDists \in UNION {[1..n -> Dists] : n \in 1..MaxDists}
    /\ venvCall \in VenvCalls
    /\ venvProvenance = [dst \in VenvPaths |-> <<>>]
    /\ venvNext = 1
    /\ venvOutcome = <<>>

\* record_provenance(_copytree(src=dist.location, dst=dst, ...)) for the next
\* distribution.
RecordProvenance ==
    /\ venvNext \in DOMAIN venvDists
    /\ venvProvenance' =
           [dst \in VenvPaths |->
               IF dst \in DOMAIN venvDists[venvNext]
               THEN Append(venvProvenance[dst], [dist |-> venvNext, path |-> dst])
               ELSE venvProvenance[dst]]
    /\ venvNext' = venvNext + 1
    /\ UNCHANGED <<notVenvVars, venvDists, venvCall, venvOutcome>>

\* After the copies: nothing to report, a warning, or CollisionError.
ReportCollisions ==
    /\ venvNext = Len(venvDists) + 1
    /\ venvOutcome = <<>>
    /\ LET collisions == Collisions(venvDists, venvProvenance)
       IN venvOutcome' =
              IF collisions = {} THEN [kind |-> "populated", collisions |-> {}]
              ELSE IF ~CollisionsOk(venvCall)
                   THEN [kind |-> "CollisionError", collisions |-> collisions]
                   ELSE [kind |-> "warned", collisions |-> collisions]
    /\ UNCHANGED <<notVenvVars, venvDists, venvCall, venvProvenance, venvNext>>

NextVenv ==
    \/ RecordProvenance
    \/ ReportCollisions

SpecVenv == InitVenv /\ [][NextVenv]_vars

\* ------------------------------------------------ a lock without wheels
\* One locked resolve, created with allow_wheels=True as UNIVERSAL_ANSICOLORS
\* is.
InitNoWheels ==
    /\ InitSelect
    /\ Len(selSupplied) = 1

\* attr.evolve(lock, allow_wheels=False): the same lock, its artifacts
\* included, with wheels disallowed.
EvolveAllowWheels ==
    /\ selpc = "created"
    /\ allowWheels
    /\ allowWheels' = FALSE
    /\ UNCHANGED <<notNoWheelVars>>

NextNoWheels ==
    \/ LockfileCreate
    \/ EvolveAllowWheels
    \/ LockfileSelect

SpecNoWheels == InitNoWheels /\ [][NextNoWheels]_vars

\* ------------------------------------------- build and install requests
\* The most downloadable artifacts in one target's subset.
MaxSubsetLen == 2

\* DownloadableArtifact values { pin, artifact }: the artifact by the stem and
\* extension of its file name.
Downloadables ==
    {[pin |-> "ansicolors 1.1.8", stem |-> "ansicolors-1.1.8-py2.py3-none-any", ext |-> ".whl"],
     [pin |-> "pywin32 227", stem |-> "pywin32-227-cp39-cp39-win32", ext |-> ".whl"],
     [pin |-> "colorama 0.4.6", stem |-> "colorama-0.4.6", ext |-> ".tar.gz"]}

\* resolved.downloadable_artifacts of one subset: no artifact twice.
SubsetLists ==
    {l \in UNION {[1..n -> Downloadables] : n \in 0..MaxSubsetLen} :
        \A i, j \in DOMAIN l : i # j => l[i] # l[j]}

\* One resolved subset per target.
ResolvedSubsets ==
    UNION {{[i \in 1..n |-> [target |-> InstallTargets[i], artifacts |-> ls[i]]] :
               ls \in [1..n -> SubsetLists]} : n \in 1..Len(InstallTargets)}

\* The (target, artifact) pairs in the order the two nested loops visit them.
RECURSIVE SubsetPairs(_)
SubsetPairs(subsets) ==
    IF subsets = <<>> THEN <<>>
    ELSE [i \in DOMAIN Head(subsets).artifacts |->
             <<Head(subsets).target, Head(subsets).artifacts[i]>>]
         \o SubsetPairs(Tail(subsets))

\* Mutant: every pair in turn, the same artifact again for a later target.
WithDuplicates(pairs) == [i \in DOMAIN pairs |-> pairs[i][2]]

\* OrderedSet(...) over the artifacts of the pairs: each once, in the order
\* of first appearance.
RECURSIVE OrderedSet(_)
OrderedSet(pairs) ==
    IF pairs = <<>> THEN <<>>
    ELSE LET init == OrderedSet(SubSeq(pairs, 1, Len(pairs) - 1))
             last == pairs[Len(pairs)][2]
         IN IF \E i \in DOMAIN init : init[i] = last THEN init ELSE Append(init, last)

\* DownloadedArtifact.path for a stored artifact: the file in its download
\* directory.
DownloadedPath(a) == <<"downloads", a.pin, a.stem, a.ext>>

\* downloaded_artifact.path.endswith(".whl")
EndsWithWhl(path) == path[Len(path)] = ".whl"

\* Mutant: an install request for every pair.
InstallPairsAll(pairs) == pairs

\* The pairs that become install requests, and those that become build
\* requests.
InstallPairs(pairs) == SelectSeq(pairs, LAMBDA p : EndsWithWhl(DownloadedPath(p[2])))
BuildPairs(pairs) == SelectSeq(pairs, LAMBDA p : ~EndsWithWhl(DownloadedPath(p[2])))

InitRequests ==
    /\ CoreInit
    /\ \A k \in StoreKeys : source[k] = "c1"
    /\ notRqIdle
    /\ rqSubsets \in ResolvedSubsets
    /\ rqSubmitted = <<>>
    /\ rqResults = <<>>
    /\ rqBuild = <<>>
    /\ rqInstall = <<>>
    /\ rqpc = "start"
    /\ rqResult = ""

\* downloadable_artifacts = OrderedSet(...); pool.map(download_artifact,
\* downloadable_artifacts) hands every item to the pool.
RequestsMap ==
    /\ rqpc = "start"
    /\ rqSubmitted' = OrderedSet(SubsetPairs(rqSubsets))
    /\ rqResults' = [i \in DOMAIN OrderedSet(SubsetPairs(rqSubsets)) |-> "pending"]
    /\ rqpc' = "map"
    /\ UNCHANGED <<notRqVars, rqSubsets, rqBuild, rqInstall, rqResult>>

\* One download task returns a DownloadedArtifact or an Error.
RequestsTaskReturns(i, r) ==
    /\ rqpc = "map"
    /\ i \in DOMAIN rqResults
    /\ rqResults[i] = "pending"
    /\ rqResults' = [rqResults EXCEPT ![i] = r]
    /\ UNCHANGED <<notRqVars, rqSubsets, rqSubmitted, rqBuild, rqInstall, rqpc, rqResult>>

\* Mutant: the requests are made whatever the download results.
RequestsCategorizeAnyway ==
    /\ rqpc = "map"
    /\ \A i \in DOMAIN rqResults : rqResults[i] # "pending"
    /\ rqInstall' = InstallPairs(SubsetPairs(rqSubsets))
    /\ rqBuild' = BuildPairs(SubsetPairs(rqSubsets))
    /\ rqpc' = "install"
    /\ UNCHANGED <<notRqVars, rqSubsets, rqSubmitted, rqResults, rqResult>>

\* After pool.join(): return the Error if a download failed, else make the
\* requests.
RequestsCategorize ==
    /\ rqpc = "map"
    /\ \A i \in DOMAIN rqResults : rqResults[i] # "pending"
    /\ IF \E i \in DOMAIN rqResults : rqResults[i] = "error"
       THEN /\ rqResult' = "Error"
            /\ rqpc' = "done"
            /\ UNCHANGED <<rqBuild, rqInstall>>
       ELSE /\ rqInstall' = InstallPairs(SubsetPairs(rqSubsets))
            /\ rqBuild' = BuildPairs(SubsetPairs(rqSubsets))
            /\ rqpc' = "install"
            /\ UNCHANGED rqResult
    /\ UNCHANGED <<notRqVars, rqSubsets, rqSubmitted, rqResults>>

\* install_distributions ran the requests: return Installed.
RequestsInstalled ==
    /\ rqpc = "install"
    /\ rqResult' = "Installed"
    /\ rqpc' = "done"
    /\ UNCHANGED <<notRqVars, rqSubsets, rqSubmitted, rqResults, rqBuild, rqInstall>>

NextRequests ==
    \/ RequestsMap
    \/ \E i \in 1..Cardinality(Downloadables), r \in {"ok", "error"} :
           RequestsTaskReturns(i, r)
    \/ RequestsCategorize
    \/ RequestsInstalled

SpecRequests == InitRequests /\ [][NextRequests]_vars

\* ------------------------------------------------------ the VCS downloader
\* The most local distributions an intransitive download leaves.
MaxDistributions == 2

\* The archives pip may leave in its download directory.
ArchiveNames == {"project-1.0.zip", "project-1.0.tar.gz", "other-2.0.zip", "other-2.0.tar.gz"}
DestDir == <<"downloads", "work">>

\* The outcomes of resolver.download: any number of local distributions, each
\* an archive of its own name with some content.
LocalDistributionLists ==
    UNION {[1..n -> [path : {<<"tmp", name>> : name \in ArchiveNames},
                     content : Contents]] : n \in 0..MaxDistributions}

\* os.path.basename
Basename(path) == path[Len(path)]

\* Mutant: only a download without any distribution is an error.
ProtocolErrorWhenNone(dists) == Len(dists) = 0

\* len(downloaded_vcs.local_distributions) != 1
ProtocolError(dists) == Len(dists) # 1

InitVcs ==
    /\ CoreInit
    /\ \A k \in StoreKeys : source[k] = "c1"
    /\ notVcsIdle
    /\ vcsDists = <<>>
    /\ vcsFiles = <<>>
    /\ vcsDigest = <<>>
    /\ vcspc = "start"
    /\ vcsRet = <<>>

\* resolver.download(requirements=[requirement], transitive=False, ...)
VcsDownload ==
    /\ vcspc = "start"
    /\ \E dists \in LocalDistributionLists :
          /\ \A i, j \in DOMAIN dists : i # j => dists[i].path # dists[j].path
          /\ vcsDists' = dists
          /\ vcsFiles' = [p \in {dists[i].path : i \in DOMAIN dists} |->
                             (CHOOSE d \in {dists[i] : i \in DOMAIN dists} : d.path = p).content]
    /\ vcspc' = "downloaded"
    /\ UNCHANGED <<notVcsVars, vcsDigest, vcsRet>>

\* return Error("Expected 1 artifact for an intransitive download ...")
VcsProtocolError ==
    /\ vcspc = "downloaded"
    /\ ProtocolError(vcsDists)
    /\ vcsRet' = <<"Error", "Expected 1 artifact", Len(vcsDists)>>
    /\ vcspc' = "returned"
    /\ UNCHANGED <<notVcsVars, vcsDists, vcsFiles, vcsDigest>>

\* digest_vcs_archive(archive_path=local_distribution.path, ...): reads the
\* archive where the download left it.
VcsDigestArchive ==
    /\ vcspc = "downloaded"
    /\ ~ProtocolError(vcsDists)
    /\ vcsDigest' = IF vcsDists[1].path \in DOMAIN vcsFiles
                    THEN <<HexDigest(vcsFiles[vcsDists[1].path])>>
                    ELSE <<"IOError">>
    /\ vcspc' = "hashed"
    /\ UNCHANGED <<notVcsVars, vcsDists, vcsFiles, vcsRet>>

\* shutil.move(local_distribution.path, os.path.join(dest_dir, filename));
\* return filename
VcsMove ==
    /\ vcspc = "hashed"
    /\ LET src == vcsDists[1].path
           dst == Append(DestDir, Basename(src))
       IN vcsFiles' = [p \in (DOMAIN vcsFiles \ {src}) \cup {dst} |->
                          IF p = dst THEN vcsFiles[src] ELSE vcsFiles[p]]
    /\ vcsRet' = <<"filename", Basename(vcsDists[1].path), 1>>
    /\ vcspc' = "returned"
    /\ UNCHANGED <<notVcsVars, vcsDists, vcsDigest>>

NextVcs ==
    \/ VcsDownload
    \/ VcsProtocolError
    \/ VcsDigestArchive
    \/ VcsMove

SpecVcs == InitVcs /\ [][NextVcs]_vars

\* ------------------------------------------------- Pip.spawn_install_wheel
\* The most wheel installations one process spawns.
MaxCalls == 2

WheelPaths == {"foo-1.0-py3-none-any.whl", "bar-2.0-cp39-cp39-win32.whl",
               "baz-3.0-cp311-cp311-linux_x86_64.whl"}
InstallDirs == {"installed_wheels/a", "installed_wheels/b"}
ReturnCodes == {0, 1, 2}

WheelCalls ==
    [wheel : WheelPaths, install_dir : InstallDirs, is_foreign : BOOLEAN, compile : BOOLEAN]

\* Mutant: the foreign target is not looked at.
CannotCompileNever(call) == FALSE

\* if target.is_foreign: if compile: raise ValueError(...)
CannotCompile(call) == call.is_foreign /\ call.compile

\* install_cmd as spawn_install_wheel assembles it; patch_tags patches the
\* tags through the environment and adds no arguments.
InstallCmd(call) ==
    <<"install", "--no-deps", "--no-index", "--only-binary", ":all:",
      "--no-warn-script-location", "--force-reinstall", "--ignore-installed",
      "--ignore-requires-python", "--prefix", call.install_dir>>
    \o <<IF call.compile THEN "--compile" ELSE "--no-compile">>
    \o <<call.wheel>>

InitWheel ==
    /\ CoreInit
    /\ \A k \in StoreKeys : source[k] = "c1"
    /\ notWhIdle
    /\ whCalls = 0
    /\ whCall = NoWheelCall
    /\ whCmd = <<>>
    /\ whSpawned = FALSE
    /\ whReturncode = -1
    /\ whFixedUp = FALSE
    /\ whpc = "ready"

\* spawn_install_wheel(wheel, install_dir, compile, target)
SpawnInstallWheel(call) ==
    /\ whpc = "ready"
    /\ whCalls < MaxCalls
    /\ whCalls' = whCalls + 1
    /\ whCall' = call
    /\ IF CannotCompile(call)
       THEN /\ whpc' = "raised"
            /\ UNCHANGED <<whCmd, whSpawned>>
       ELSE /\ whCmd' = InstallCmd(call)
            /\ whSpawned' = TRUE
            /\ whpc' = "running"
    /\ UNCHANGED <<notWhVars, whReturncode, whFixedUp>>

\* Job.wait: the subprocess exits and the job runs its finalizer,
\* fixup_install(returncode), which returns at once for a non-zero code.
JobWait(returncode) ==
    /\ whpc = "running"
    /\ whReturncode' = returncode
    /\ whFixedUp' = (returncode = 0)
    /\ whpc' = "done"
    /\ UNCHANGED <<notWhVars, whCalls, whCall, whCmd, whSpawned>>

\* The caller goes on to its next wheel.
NextWheel ==
    /\ whpc \in {"raised", "done"}
    /\ whCalls < MaxCalls
    /\ whCall' = NoWheelCall
    /\ whCmd' = <<>>
    /\ whSpawned' = FALSE
    /\ whReturncode' = -1
    /\ whFixedUp' = FALSE
    /\ whpc' = "ready"
    /\ UNCHANGED <<notWhVars, whCalls>>

NextInstallWheel ==
    \/ \E call \in WheelCalls : SpawnInstallWheel(call)
    \/ \E returncode \in ReturnCodes : JobWait(returncode)
    \/ NextWheel

SpecWheel == InitWheel /\ [][NextInstallWheel]_vars

\* ----------------------------------------------- get_pip before the pool
\* The most download tasks of one run.
MaxTasks == 3

\* get_pip() is called without an interpreter.
DefaultInterpreter == "None"

\* Mutant: get_pip forgets the Pip it created.
PipNotStored(cache, interpreter) == cache

\* _PIP[interpreter] = pip
PipStored(cache, interpreter) == cache \cup {interpreter}

InitPip ==
    /\ CoreInit
    /\ \A k \in StoreKeys : source[k] = "c1"
    /\ notPipIdle
    /\ pipCache \in {{}, {DefaultInterpreter}}
    /\ pipCreations = <<>>
    /\ pipPool = "none"
    /\ pipMain = "start"
    /\ pipTask \in UNION {[1..n -> {"pending"}] : n \in 1..MaxTasks}

\* pip = get_pip() in resolve_from_lock: the lookup and, on a miss,
\* Pip.create and the store.
MainGetPip ==
    /\ pipMain = "start"
    /\ IF DefaultInterpreter \in pipCache
       THEN UNCHANGED <<pipCache, pipCreations>>
       ELSE /\ pipCreations' = Append(pipCreations, [thread |-> 0, pool |-> pipPool])
            /\ pipCache' = PipStored(pipCache, DefaultInterpreter)
    /\ pipMain' = "have_pip"
    /\ UNCHANGED <<notPipVars, pipPool, pipTask>>

\* pool = ThreadPool(processes=max_threads); pool.map(download_artifact, ...)
PipPoolCreate ==
    /\ pipMain = "have_pip"
    /\ pipPool' = "open"
    /\ pipMain' = "mapping"
    /\ UNCHANGED <<notPipVars, pipCache, pipCreations, pipTask>>

\* A worker thread takes a download task.
PipTaskStart(t) ==
    /\ pipPool = "open"
    /\ pipTask[t] = "pending"
    /\ pipTask' = [pipTask EXCEPT ![t] = "running"]
    /\ UNCHANGED <<notPipVars, pipCache, pipCreations, pipPool, pipMain>>

\* get_pip() on a worker thread (the tags of a platform are calculated with
\* get_pip().spawn_debug): the lookup and, on a miss, Pip.create and the
\* store.
PipTaskGetPip(t) ==
    /\ pipTask[t] = "running"
    /\ IF DefaultInterpreter \in pipCache
       THEN UNCHANGED <<pipCache, pipCreations>>
       ELSE /\ pipCreations' = Append(pipCreations, [thread |-> t, pool |-> pipPool])
            /\ pipCache' = PipStored(pipCache, DefaultInterpreter)
    /\ pipTask' = [pipTask EXCEPT ![t] = "have_pip"]
    /\ UNCHANGED <<notPipVars, pipPool, pipMain>>

\* The download task returns.
PipTaskDone(t) ==
    /\ pipTask[t] \in {"running", "have_pip"}
    /\ pipTask' = [pipTask EXCEPT ![t] = "done"]
    /\ UNCHANGED <<notPipVars, pipCache, pipCreations, pipPool, pipMain>>

\* finally: pool.close(); pool.join()
PipPoolJoin ==
    /\ pipMain = "mapping"
    /\ \A t \in DOMAIN pipTask : pipTask[t] = "done"
    /\ pipPool' = "joined"
    /\ pipMain' = "joined"
    /\ UNCHANGED <<notPipVars, pipCache, pipCreations, pipTask>>

NextPip ==
    \/ MainGetPip
    \/ PipPoolCreate
    \/ \E t \in DOMAIN pipTask :
           \/ PipTaskStart(t)
           \/ PipTaskGetPip(t)
           \/ PipTaskDone(t)
    \/ PipPoolJoin

SpecPip == InitPip /\ [][NextPip]_vars

\* ------------------------------------------------ Platform.supported_tags
\* The most threads that ask for the tags of the platform, and the most
\* calls each of them makes.
MaxCallers == 2
MaxTagCalls == 2

Callers == 1..MaxCallers

\* A serialized tag: the JSON type of the value, the types of the items that
\* iterating over it yields, and its text.
ListTag(text) == [type |-> "list", comps |-> <<"string", "string", "string">>, text |-> text]
\* The content of a PLAT-INFO file: whether it is parsable JSON, the JSON type
\* of the document, the type of its supported_tags member and the tags.
CalculatedEntry ==
    [parsable |-> TRUE, data |-> "object", sup_tags |-> "list",
     tags |-> <<ListTag("cp39-cp39-linux_x86_64"), ListTag("py3-none-any")>>]
NotJson == [parsable |-> FALSE, data |-> "none", sup_tags |-> "none", tags |-> <<>>]
NotObject == [parsable |-> TRUE, data |-> "list", sup_tags |-> "none", tags |-> <<>>]
NoTagList == [parsable |-> TRUE, data |-> "object", sup_tags |-> "missing", tags |-> <<>>]
TagOfTwo ==
    [parsable |-> TRUE, data |-> "object", sup_tags |-> "list",
     tags |-> <<[type |-> "list", comps |-> <<"string", "string">>, text |-> "cp39-cp39"]>>]
TagWithNumber ==
    [parsable |-> TRUE, data |-> "object", sup_tags |-> "list",
     tags |-> <<ListTag("py3-none-any"),
                [type |-> "list", comps |-> <<"string", "number", "string">>, text |-> "cp39-3-linux"]>>]
\* "supported_tags": ["abc"]: a JSON string of three characters.
TagIsString ==
    [parsable |-> TRUE, data |-> "object", sup_tags |-> "list",
     tags |-> <<[type |-> "string", comps |-> <<"string", "string", "string">>, text |-> "abc"]>>]
\* "supported_tags": [5]
TagIsNumber ==
    [parsable |-> TRUE, data |-> "object", sup_tags |-> "list",
     tags |-> <<[type |-> "number", comps |-> <<>>, text |-> "5"]>>]
DiskEntries ==
    {CalculatedEntry, NotJson, NotObject, NoTagList, TagOfTwo, TagWithNumber,
     TagIsString, TagIsNumber}

\* Mutant: the memory cache is never found set.
MemoryHitNever(memo) == FALSE

\* supported_tags = _SUPPORTED_TAGS_BY_PLATFORM.get(memory_cache_key);
\* if supported_tags is not None
MemoryHit(memo) == memo # <<>>

\* len(tag) of a JSON number raises TypeError.
LenRaises(tag) == tag.type = "number"

\* parse_tag: len(tag) != 3 or not all(isinstance(component, string) ...)
ParseTagRaises(tag) ==
    \/ Len(tag.comps) # 3
    \/ \E i \in DOMAIN tag.comps : tag.comps[i] # "string"

\* What supported_tags does with the data it loaded: "regenerate" (remove
\* the entry and start over), "TypeError" (propagates) or "ok".
EntryOutcome(e) ==
    IF ~e.parsable \/ e.data # "object" \/ e.sup_tags # "list"
    THEN "regenerate"
    ELSE LET bad == {i \in DOMAIN e.tags : LenRaises(e.tags[i]) \/ ParseTagRaises(e.tags[i])}
             first == CHOOSE i \in bad : \A j \in bad : i <= j
         IN IF bad = {} THEN "ok"
            ELSE IF LenRaises(e.tags[first]) THEN "TypeError"
            ELSE "regenerate"

InitTags ==
    /\ CoreInit
    /\ \A k \in StoreKeys : source[k] = "c1"
    /\ notTgIdle
    /\ tgMemo = <<>>
    /\ tgWrites = 0
    /\ tgDisk \in {<<>>} \cup {<<e>> : e \in DiskEntries}
    /\ tgpc = [t \in Callers |-> "start"]
    /\ tgData = [t \in Callers |-> NotJson]
    /\ tgRet = [t \in Callers |-> <<>>]
    /\ tgCalls = [t \in Callers |-> 1]
    /\ tgHit = [t \in Callers |-> FALSE]
    /\ tgTouched = [t \in Callers |-> FALSE]

\* Read level 1, at the start of a call and of every recursive call.
TagsReadMemory(t) ==
    /\ tgpc[t] = "start"
    /\ IF MemoryHit(tgMemo)
       THEN /\ tgRet' = [tgRet EXCEPT ![t] = <<"tags", tgMemo[1]>>]
            /\ tgpc' = [tgpc EXCEPT ![t] = "done"]
       ELSE /\ tgpc' = [tgpc EXCEPT ![t] = "enter"]
            /\ UNCHANGED tgRet
    /\ UNCHANGED <<notTgVars, tgMemo, tgWrites, tgDisk, tgData, tgCalls, tgHit, tgTouched>>

\* with atomic_directory(target_dir=disk_cache_key, exclusive=False):
\* cache_dir.is_finalized() is whether the directory exists.
TagsEnter(t) ==
    /\ tgpc[t] = "enter"
    /\ tgpc' = [tgpc EXCEPT ![t] = IF tgDisk # <<>> THEN "open" ELSE "work"]
    /\ tgTouched' = [tgTouched EXCEPT ![t] = TRUE]
    /\ UNCHANGED <<notTgVars, tgMemo, tgWrites, tgDisk, tgData, tgRet, tgCalls, tgHit>>

\* Missed both caches: the tags are calculated and written to the work
\* directory, which the end of the scope renames to the cache directory
\* unless another caller got there first.
TagsPublish(t) ==
    /\ tgpc[t] = "work"
    /\ tgDisk' = IF tgDisk = <<>> THEN <<CalculatedEntry>> ELSE tgDisk
    /\ tgpc' = [tgpc EXCEPT ![t] = "open"]
    /\ UNCHANGED <<notTgVars, tgMemo, tgWrites, tgData, tgRet, tgCalls, tgHit, tgTouched>>

\* with open(os.path.join(disk_cache_key, PLAT_INFO_FILE)) as fp: json.load(fp)
TagsOpen(t) ==
    /\ tgpc[t] = "open"
    /\ IF tgDisk = <<>>
       THEN /\ tgRet' = [tgRet EXCEPT ![t] = <<"IOError", <<>>>>]
            /\ tgpc' = [tgpc EXCEPT ![t] = "raised"]
            /\ UNCHANGED tgData
       ELSE /\ tgData' = [tgData EXCEPT ![t] = tgDisk[1]]
            /\ tgpc' = [tgpc EXCEPT ![t] = "loaded"]
            /\ UNCHANGED tgRet
    /\ UNCHANGED <<notTgVars, tgMemo, tgWrites, tgDisk, tgCalls, tgHit, tgTouched>>

\* The checks of the loaded data: safe_rmtree(disk_cache_key) and the
\* recursive call, or write level 1 and return.
TagsParse(t) ==
    /\ tgpc[t] = "loaded"
    /\ LET entryOutcome == EntryOutcome(tgData[t])
       IN CASE entryOutcome = "regenerate" ->
                 /\ tgDisk' = <<>>
                 /\ tgpc' = [tgpc EXCEPT ![t] = "start"]
                 /\ UNCHANGED <<tgMemo, tgWrites, tgRet>>
            [] entryOutcome = "TypeError" ->
                 /\ tgRet' = [tgRet EXCEPT ![t] = <<"TypeError", <<>>>>]
                 /\ tgpc' = [tgpc EXCEPT ![t] = "raised"]
                 /\ UNCHANGED <<tgMemo, tgWrites, tgDisk>>
            [] OTHER ->
                 /\ tgMemo' = <<tgData[t].tags>>
                 /\ tgWrites' = tgWrites + 1
                 /\ tgRet' = [tgRet EXCEPT ![t] = <<"tags", tgData[t].tags>>]
                 /\ tgpc' = [tgpc EXCEPT ![t] = "done"]
                 /\ UNCHANGED tgDisk
    /\ UNCHANGED <<notTgVars, tgData, tgCalls, tgHit, tgTouched>>

\* The thread asks for the tags of the platform again.
TagsCallAgain(t) ==
    /\ tgpc[t] = "done"
    /\ tgCalls[t] < MaxTagCalls
    /\ tgCalls' = [tgCalls EXCEPT ![t] = @ + 1]
    /\ tgHit' = [tgHit EXCEPT ![t] = (tgMemo # <<>>)]
    /\ tgTouched' = [tgTouched EXCEPT ![t] = FALSE]
    /\ tgRet' = [tgRet EXCEPT ![t] = <<>>]
    /\ tgpc' = [tgpc EXCEPT ![t] = "start"]
    /\ UNCHANGED <<notTgVars, tgMemo, tgWrites, tgDisk, tgData>>

NextTags ==
    \E t \in Callers :
        \/ TagsReadMemory(t)
        \/ TagsEnter(t)
        \/ TagsPublish(t)
        \/ TagsOpen(t)
        \/ TagsParse(t)
        \/ TagsCallAgain(t)

SpecTags == InitTags /\ [][NextTags]_vars

\* ------------------------------------------------ _default_build_system
\* The most worker threads that build an sdist of a local project, and the
\* most build hooks each of them invokes.
MaxBuilders == 2
MaxHooks == 2

Builders == 1..MaxBuilders
PipVersions == {"vendored", "23.2"}
NoBuildSystem == [kind |-> "none", id |-> 0]

InitBuildSystem ==
    /\ CoreInit
    /\ \A k \in StoreKeys : source[k] = "c1"
    /\ notBsIdle
    /\ bsCache = [v \in PipVersions |-> 0]
    /\ bsCreated = [v \in PipVersions |-> 0]
    /\ bspc = [t \in Builders |-> "idle"]
    /\ bsVersion \in [Builders -> PipVersions]
    /\ bsRet = [t \in Builders |-> NoBuildSystem]
    /\ bsCalls = [t \in Builders |-> 0]

\* _get_build_system: the project's own build system if load_build_system
\* finds one, else _default_build_system, which starts by
\* build_system = _DEFAULT_BUILD_SYSTEMS.get(pip_version).
GetBuildSystem(t, custom) ==
    /\ bspc[t] = "idle"
    /\ bsCalls[t] < MaxHooks
    /\ bsCalls' = [bsCalls EXCEPT ![t] = @ + 1]
    /\ IF custom
       THEN /\ bsRet' = [bsRet EXCEPT ![t] = [kind |-> "custom", id |-> t]]
            /\ bspc' = [bspc EXCEPT ![t] = "done"]
       ELSE IF bsCache[bsVersion[t]] # 0
       THEN /\ bsRet' = [bsRet EXCEPT ![t] = [kind |-> "default", id |-> bsCache[bsVersion[t]]]]
            /\ bspc' = [bspc EXCEPT ![t] = "done"]
       ELSE /\ bsRet' = [bsRet EXCEPT ![t] = NoBuildSystem]
            /\ bspc' = [bspc EXCEPT ![t] = "building"]
    /\ UNCHANGED <<notBsVars, bsCache, bsCreated, bsVersion>>

\* if build_system is None: build_system = BuildSystem.create(...);
\* _DEFAULT_BUILD_SYSTEMS[pip_version] = build_system; return build_system
BuildSystemCreate(t) ==
    /\ bspc[t] = "building"
    /\ LET v == bsVersion[t]
           created == bsCreated[v] + 1
       IN /\ bsCreated' = [bsCreated EXCEPT ![v] = created]
          /\ bsCache' = [bsCache EXCEPT ![v] = created]
          /\ bsRet' = [bsRet EXCEPT ![t] = [kind |-> "default", id |-> created]]
    /\ bspc' = [bspc EXCEPT ![t] = "done"]
    /\ UNCHANGED <<notBsVars, bsVersion, bsCalls>>

\* The hook returns and the thread goes on to its next build.
BuildHookReturns(t) ==
    /\ bspc[t] = "done"
    /\ bspc' = [bspc EXCEPT ![t] = "idle"]
    /\ UNCHANGED <<notBsVars, bsCache, bsCreated, bsVersion, bsRet, bsCalls>>

NextBuildSystem ==
    \E t \in Builders :
        \/ \E custom \in BOOLEAN : GetBuildSystem(t, custom)
        \/ BuildSystemCreate(t)
        \/ BuildHookReturns(t)

SpecBuildSystem == InitBuildSystem /\ [][NextBuildSystem]_vars

\* ================================================================ claims
SameKey(k) == {t \in RunTasks : arts[t].key = k}
Returned(t) == pc[t] = "done"

C2_FingerprintOrMismatch ==
    \A t \in RunTasks :
        Returned(t) =>
            LET a == Artifact(t)
                r == TaskResult(t)
            IN /\ r.status = "ok" => r.fingerprint = a.fingerprint
               /\ r.status = "FingerprintMismatch" =>
                     /\ r.expected = a.fingerprint
                     /\ r.actual = <<a.fingerprint[1], digest[t]>>
                     /\ r.actual # r.expected
               /\ (digest[t] # "" /\ digest[t] # a.fingerprint[2]) =>
                     r.status = "FingerprintMismatch"

C2_Witness ==
    \E t, u \in RunTasks :
        /\ Returned(t) /\ Returned(u)
        /\ TaskResult(t).status = "ok"
        /\ TaskResult(t).fingerprint = Artifact(t).fingerprint
        /\ Artifact(u).kind = "local"
        /\ TaskResult(u).status = "FingerprintMismatch"
        /\ TaskResult(u).actual = <<"sha256", "h2">>

\* What a plain caller's work directory holds when its body has run to
\* completion.
Complete(c) == {File(n, c, <<"x">>) : n \in plan[c]}
LeftScope(t) == pc[t] \in {"unlock", "done"}
ExitedNormally(t) ==
    LeftScope(t) /\ outcome[t] \in {"finalized", "published", "lost_race"}

\* C3: once a scope has exited normally (exclusive or not, whatever its peers
\* do), target_dir exists and holds exactly the files of one call whose body
\* ran to completion and whose rename published them.
C3_TargetIsOneCompleteCall ==
    \A t \in Workers :
        ExitedNormally(t) =>
            /\ target[WorkerDir].exists
            /\ \E c \in Workers :
                  /\ outcome[c] = "published"
                  /\ target[WorkerDir].files = Complete(c)

C3_Witness ==
    \E t, c \in Workers :
        /\ ~excl[t] /\ ~excl[c]
        /\ plan[t] = BodyFiles /\ plan[c] = BodyFiles
        /\ pc[t] = "done" /\ outcome[t] = "lost_race"
        /\ outcome[c] = "published"
        /\ target[WorkerDir].files = Complete(c)

InScope(t) ==
    pc[t] \in {"enter", "body", "verify", "finalize", "cleanup", "unlock"}

\* C4: with exclusive=true the lock is held for the whole scope, the publishing
\* rename included: no two store tasks of one key are inside the scope or own a
\* work directory at the same time, and a task that is inside the scope while
\* the entry exists, without having published it itself, observed is_finalized.
C4_ExclusiveScope ==
    \A t \in RunTasks :
        /\ InScope(t) => lock[KeyOf(t)] = t
        /\ \A u \in RunTasks \ {t} :
              KeyOf(u) = KeyOf(t) =>
                  /\ ~(InScope(t) /\ InScope(u))
                  /\ ~(work[t].exists /\ work[u].exists)
        /\ (/\ pc[t] \in {"body", "verify", "finalize", "cleanup"}
            /\ target[KeyOf(t)].exists) => fin[t]

C4_Witness ==
    \E t, u \in RunTasks :
        /\ t # u
        /\ KeyOf(t) = KeyOf(u)
        /\ pc[t] = "lock"
        /\ lock[KeyOf(u)] = u
        /\ work[u].exists /\ work[u].files # {}

BodyFailed(t) == ret[t].status \in {"FingerprintMismatch", "DownloadTransportError"}

\* C5: when the body of a store scope raised (save returned an Error, or the
\* fingerprint did not match), the task hands back the error, nothing of this
\* call is in target_dir, and as long as the task still holds the lock
\* target_dir does not exist: the next call starts from an unfinalized state.
C5_RaisedBodyNotPublished ==
    \A t \in RunTasks :
        (BodyFailed(t) /\ LeftScope(t)) =>
            /\ outcome[t] = "body_raised"
            /\ TaskResult(t).status \notin {"ok", "none"}
            /\ \A f \in target[KeyOf(t)].files : f.by # CallId(t)
            /\ pc[t] = "unlock" => ~target[KeyOf(t)].exists
            /\ \A u \in RunTasks :
                  (KeyOf(u) = KeyOf(t) /\ pc[u] = "body" /\ ~target[KeyOf(t)].exists)
                      => ~fin[u]

C5_Witness ==
    \E t, u \in RunTasks :
        /\ pc[t] = "done"
        /\ TaskResult(t).status = "FingerprintMismatch"
        /\ ~target[KeyOf(t)].exists
        /\ u # t /\ KeyOf(u) = KeyOf(t)
        /\ pc[u] = "body" /\ ~fin[u]

\* C6: no work directory outlives its scope, however the scope ended
\* (published, found finalized, lost the rename race, failed rename, raising
\* body), for any number of callers of the target.
C6_NoWorkDirSurvives ==
    \A t \in Workers : LeftScope(t) => ~work[t].exists

C6_Witness ==
    /\ \A t \in Workers : pc[t] = "done" /\ ~work[t].exists
    /\ \E t, u \in Workers :
          /\ outcome[t] = "lost_race"
          /\ outcome[u] = "published"

\* C7: a publishing rename that failed with EEXIST or ENOTEMPTY ends the scope
\* as a success with the work directory removed; one that failed with any
\* other errno ends it with the error.
C7_RenameErrors ==
    \A t \in Workers :
        LeftScope(t) =>
            /\ errno[t] \in {"EEXIST", "ENOTEMPTY"} =>
                  /\ outcome[t] = "lost_race"
                  /\ ExitedNormally(t)
                  /\ ~work[t].exists
            /\ errno[t] \notin {"", "OK", "EEXIST", "ENOTEMPTY"} =>
                  /\ outcome[t] = "rename_error"
                  /\ ~ExitedNormally(t)

C7_Witness ==
    \E t, u \in Workers :
        /\ pc[t] = "done" /\ pc[u] = "done"
        /\ errno[t] = "ENOTEMPTY" /\ outcome[t] = "lost_race"
        /\ ~work[t].exists
        /\ errno[u] = "OK" /\ outcome[u] = "published"

\* The other half of C7 at work: a rename that ended with EPERM.
C7_EpermPropagated ==
    \E t \in Workers :
        /\ pc[t] = "done"
        /\ errno[t] = "EPERM" /\ outcome[t] = "rename_error"

\* C8: a caller that enters while target_dir exists gets is_finalized, never
\* has a work directory, and its scope exit leaves target_dir as it was.
C8_FinalizedOnEntry ==
    [][\A t \in Workers :
          /\ (pc[t] = "enter" /\ pc'[t] = "body" /\ target[WorkerDir].exists)
                => (fin'[t] /\ ~work'[t].exists)
          /\ fin[t] => ~work'[t].exists
          /\ (fin[t] /\ pc[t] = "finalize" /\ pc'[t] = "unlock")
                => (target' = target /\ outcome'[t] = "finalized")]_vars

C8_Witness ==
    \E t \in Workers :
        /\ fin[t]
        /\ plan[t] # {}
        /\ pc[t] = "done"
        /\ outcome[t] = "finalized"
        /\ target[WorkerDir].exists
        /\ \A f \in target[WorkerDir].files : f.by # t

SidecarOf(dir) == CHOOSE f \in dir.files : f.name = SidecarName

\* C9: once the entry of a key is finalized, no step invokes save for that key
\* again or changes the entry, in this run or a later one; a store call that
\* found it finalized returns the stored path and the fingerprint written in
\* the sidecar, whatever the source serves by then.
C9_FinalizedNeverDownloadedAgain ==
    /\ [][\A k \in StoreKeys :
            target[k].exists => (saves'[k] = saves[k] /\ target'[k] = target[k])]_vars
    /\ [](\A t \in RunTasks :
            (fin[t] /\ Returned(t)) =>
                /\ TaskResult(t).status = "ok"
                /\ TaskResult(t).path = <<KeyOf(t), Artifact(t).filename>>
                /\ FormatSidecar(TaskResult(t).fingerprint)
                       = SidecarOf(target[KeyOf(t)]).data)

C9_Witness ==
    \E t \in RunTasks :
        /\ runNo = 2
        /\ fin[t]
        /\ Returned(t)
        /\ TaskResult(t).status = "ok"
        /\ saves[KeyOf(t)] = 1
        /\ HexDigest(source[KeyOf(t)]) # TaskResult(t).fingerprint[2]

FailedTasks == {i \in RunTasks : TaskResult(i).status # "ok"}

\* C10: when at least one task failed, the run returns one Error whose count is
\* the number of failed tasks and whose entries are the failed artifacts, each
\* once, in the order of downloadable_artifacts, numbered 1, 2, ..., each with
\* the artifact's pin and URL and the task's error; no successful artifact is
\* listed.
C10_AggregatedError ==
    (runpc = "done" /\ FailedTasks # {}) =>
        /\ result.kind = "Error"
        /\ result.count = Cardinality(FailedTasks)
        /\ result.were = (IF Cardinality(FailedTasks) = 1 THEN "was" ELSE "were")
        /\ Len(result.details) = Cardinality(FailedTasks)
        /\ \A j \in 1..Len(result.details) :
              /\ result.details[j].index = j
              /\ \E i \in FailedTasks :
                    /\ Cardinality({h \in FailedTasks : h <= i}) = j
                    /\ result.details[j].pin = arts[i].pin
                    /\ result.details[j].url = arts[i].url
                    /\ result.details[j].error = TaskResult(i)

C10_Witness ==
    /\ runpc = "done"
    /\ Len(arts) = 2
    /\ FailedTasks = {2}
    /\ result.kind = "Error"
    /\ result.count = 1
    /\ result.details[1].index = 1
    /\ result.details[1].url = arts[2].url

\* C11: when the orchestrator evaluates the results, every artifact of the
\* downloadable set has been attempted and its task has run to its own success
\* or failure, whatever its peers did; every task that succeeded has its entry
\* finalized in the cache, also when the run as a whole returns the Error.
C11_PeersRunToCompletion ==
    runpc \notin {"idle", "map"} =>
        \A t \in RunTasks :
            /\ pc[t] = "done"
            /\ outcome[t] # "none"
            /\ TaskResult(t).status # "none"
            /\ TaskResult(t).status = "ok" =>
                  /\ target[KeyOf(t)].exists
                  /\ Load(KeyOf(t), target[KeyOf(t)]) = TaskResult(t)

C11_Witness ==
    /\ runpc = "done"
    /\ result.kind = "Error"
    /\ Len(arts) = 2
    /\ TaskResult(1).status = "DownloadTransportError"
    /\ TaskResult(2).status = "ok"
    /\ outcome[2] = "published"
    /\ target[KeyOf(2)].exists
    /\ KeyOf(1) # KeyOf(2)
    /\ ~target[KeyOf(1)].exists

StatedPoolSize == Min(poolLen, Min(MAX_PARALLEL_DOWNLOADS, 4 * poolJobs))

\* C13 as stated: for every artifact count and every max_jobs value the pool
\* has min(len(artifacts), min(MAX_PARALLEL_DOWNLOADS, 4 * max_jobs)) threads,
\* and never more than 10, 4 * max_jobs or len(artifacts) downloads are in
\* flight.
C13_PoolSizeAsStated ==
    /\ poolSize # 0 => poolSize = StatedPoolSize
    /\ poolInFlight <= 10
    /\ poolInFlight <= 4 * poolJobs
    /\ poolInFlight <= poolLen

\* The jobs value the pool is sized with: max_parallel_jobs, or the cpu count
\* when that is None or 0, or 1 when that is unknown too.
EffectiveJobs ==
    IF poolJobs # 0 THEN poolJobs ELSE IF poolCpus # 0 THEN poolCpus ELSE 1

\* C13 amended: the pool has min(len(artifacts) or 1, min(10, 4 * jobs))
\* threads, jobs being max_jobs or else the cpu count or else 1; this is the
\* stated size whenever there is an artifact and max_jobs is at least 1.  Never
\* more than the pool size, 10, 4 * jobs or len(artifacts) downloads are in
\* flight.
C13_PoolSize ==
    /\ poolSize # 0 =>
          LET sizes == {IF poolLen = 0 THEN 1 ELSE poolLen, 10, 4 * EffectiveJobs}
          IN /\ poolSize \in sizes
             /\ \A x \in sizes : poolSize <= x
             /\ (poolLen >= 1 /\ poolJobs >= 1) => poolSize = StatedPoolSize
    /\ poolInFlight <= poolSize
    /\ poolInFlight <= 10
    /\ poolInFlight <= 4 * EffectiveJobs
    /\ poolInFlight <= poolLen

C13_Witness ==
    /\ poolLen = 11
    /\ poolJobs = 3
    /\ poolSize = 10
    /\ poolInFlight = 10
    /\ poolSent = 10

\* A locked requirement has a usable artifact for the tags: an sdist, or a
\* wheel one of whose tags is supported.
Usable(req, tags) ==
    \E artifact \in req :
        \/ artifact.ext \in SdistExtensions
        \/ /\ artifact.ext = ".whl"
           /\ \E i \in artifact.interpreters, a \in artifact.abis, p \in artifact.platforms :
                 \E n \in DOMAIN tags : tags[n] = <<i, a, p>>

AllUsable(resolve, tags) ==
    \A j \in DOMAIN resolve.locked_requirements :
        Usable(resolve.locked_requirements[j], tags)

\* C14 as stated: rank returns None if and only if some locked requirement of
\* the resolve has no usable artifact; every resolve select yields has a usable
\* artifact for each of its requirements.
C14_RankNoneIffUnusable ==
    selpc = "selected" =>
        /\ \A i \in DOMAIN selLock :
              ~selRanks[i].ranked <=> ~AllUsable(selLock[i], selTags)
        /\ \A i \in DOMAIN selYield : AllUsable(selYield[i], selTags)

\* C14 amended: rank returns None if and only if the resolve has no locked
\* requirement at all or some locked requirement has no usable artifact; every
\* resolve select yields has at least one requirement and a usable artifact
\* for each.
C14_RankNoneIffEmptyOrUnusable ==
    selpc = "selected" =>
        /\ \A i \in DOMAIN selLock :
              ~selRanks[i].ranked <=>
                  \/ selLock[i].locked_requirements = <<>>
                  \/ ~AllUsable(selLock[i], selTags)
        /\ \A i \in DOMAIN selYield :
              /\ selYield[i].locked_requirements # <<>>
              /\ AllUsable(selYield[i], selTags)

C14_Witness ==
    /\ selpc = "selected"
    /\ selOutcome = "yielded"
    /\ \E i \in DOMAIN selLock :
          /\ ~selRanks[i].ranked
          /\ selLock[i].locked_requirements = <<>>
    /\ \E j \in DOMAIN selYield[1].locked_requirements :
          \E artifact \in selYield[1].locked_requirements[j] : artifact.ext = ""

\* The resolves of the lock that rank, as a set: the order they were supplied
\* in plays no part.
RankedSet == {r \in {Rank(selSupplied[i], selTags) : i \in DOMAIN selSupplied} : r.ranked}

Permuted(seq) ==
    {[i \in DOMAIN seq |-> seq[p[i]]] :
        p \in {q \in [DOMAIN seq -> DOMAIN seq] : \A i, j \in DOMAIN seq : i # j => q[i] # q[j]}}

\* C15: _select returns a resolve of minimum average requirement rank among
\* those that rank; of the resolves that tie on it, one with the
\* lexicographically smallest platform tag; and the same resolve for every order
\* the resolves are supplied in.  This is of the calls in which _select
\* returns: with no supported tag it raises instead (C30).
C15_SelectMinimum ==
    (selpc = "selected" /\ RankedSet # {} /\ selOutcome # "ZeroDivisionError") =>
        /\ Len(selYield) = 1
        /\ \E y \in RankedSet :
              /\ y.locked_resolve = selYield[1]
              /\ \A q \in RankedSet :
                    /\ y.sum * q.count <= q.sum * y.count
                    /\ y.sum * q.count = q.sum * y.count =>
                          ~LexLess(q.locked_resolve.platform_tag, y.locked_resolve.platform_tag)
        /\ \A other \in Permuted(selSupplied) :
              /\ Select(SortedTuple(other), selTags) = selYield
              /\ Select(other, selTags) = selYield

C15_Witness ==
    /\ selpc = "selected"
    /\ Len(selSupplied) = 2
    /\ LexLess(selSupplied[2].platform_tag, selSupplied[1].platform_tag)
    /\ selYield = <<selSupplied[2]>>
    /\ \E x, y \in RankedSet :
          /\ x.locked_resolve = selSupplied[1]
          /\ y.locked_resolve = selSupplied[2]
          /\ x.count # y.count
          /\ x.sum * y.count = y.sum * x.count

\* C16 as stated: a target for which no resolve of the lock ranks gets a
\* TargetUnsatisfiedError from the selection.
C16_UnsatisfiedTargetError ==
    (selpc = "selected" /\ RankedSet = {}) => selOutcome = "TargetUnsatisfiedError"

\* A chain of requirements from a root requirement to project p, every marker
\* on the way evaluating true under env.
ProjectPaths == UNION {[1..n -> Projects] : n \in 1..Cardinality(Projects)}
TruePath(path, env) ==
    /\ \E r \in subRoots : r.project = path[1] /\ Evaluate(r.marker, env)
    /\ \A i \in 1..(Len(path) - 1) :
          \E d \in subDeps : /\ d.from = path[i] /\ d.to = path[i + 1]
                             /\ Evaluate(d.marker, env)
ReachableFor(p, platform) ==
    \E path \in ProjectPaths :
        path[Len(path)] = p /\ TruePath(path, MarkerEnvironment(platform))

\* C17: a locked requirement that is reachable for a target only through
\* requirements whose markers evaluate false in the target's marker
\* environment is not in that target's subset, and it is downloaded only if
\* another target of the run reaches it; a locked requirement reachable
\* through true markers is in the target's subset.
C17_MarkerFalseExcluded ==
    subpc \in {"subset", "done"} =>
        /\ \A t \in subTargets : \A p \in Projects :
              p \in subSubsets[t] <=> ReachableFor(p, t)
        /\ \A p \in subDownloaded : \E t \in subTargets : ReachableFor(p, t)
C17_Witness ==
    /\ subpc = "done"
    /\ \E p \in Projects : \E t1, t2 \in subTargets :
          /\ \E d \in subDeps : d.to = p /\ ~Evaluate(d.marker, MarkerEnvironment(t1))
          /\ p \notin subSubsets[t1]
          /\ p \in subSubsets[t2]
          /\ p \in subDownloaded

\* Whether path p lies in a directory named d.
InDirectory(p, d) == \E i \in 1..(Len(p) - 1) : p[i] = d
\* The files the digest is stated to ignore: compiled files, what lies in a
\* __pycache__ directory and, for a VCS archive, in its control directory.
Ignored(p) ==
    \/ NameSuffix(p[Len(p)]) \in {".pyc", ".pyo"}
    \/ InDirectory(p, "__pycache__")
    \/ dirVcs # "" /\ InDirectory(p, VcsControlDir(dirVcs))
\* The files the digest is stated to cover. For a local project the claim's
\* clause on VCS control directories is read as about VCS archives, and
\* nothing is stated of such a directory in a project.
Covered(p) ==
    /\ ~Ignored(p)
    /\ dirVcs = "" => \A d \in {".git", ".hg"} : ~InDirectory(p, d)

LeftUnspecified ==
    {n \in {"FL", "ansicolors", "other"} :
        /\ \E i \in DOMAIN pmUrls : \E j \in DOMAIN pmUrls[i] : pmUrls[i][j] = Placeholder(n)
        /\ ~\E i \in DOMAIN pmOptions : pmOptions[i][1] = n}
\* The names a list of the error message starts its lines with.
Enumerated(lines) == {lines[i][1] : i \in DOMAIN lines}
\* No placeholder is left and each one gave way to the path mapped to it.
Substituted(loaded) ==
    /\ DOMAIN loaded = DOMAIN pmUrls
    /\ \A i \in DOMAIN pmUrls :
          /\ DOMAIN loaded[i] = DOMAIN pmUrls[i]
          /\ \A j \in DOMAIN pmUrls[i] :
                IF pmUrls[i][j].kind = "placeholder"
                THEN \E k \in DOMAIN pmOptions :
                        /\ pmOptions[k][1] = pmUrls[i][j].value
                        /\ loaded[i][j] = Text(pmOptions[k][2])
                ELSE loaded[i][j] = pmUrls[i][j]

\* C20: when some placeholder name of the lockfile's URLs has no path
\* mapping, parse_lockfile returns an Error and no Lockfile, and the error
\* lists as unspecified exactly the names without a mapping; when every
\* placeholder name is mapped it returns the Lockfile with each placeholder
\* replaced by the mapped path.
C20_UnmappedPlaceholdersFail ==
    pmpc = "done" =>
        IF LeftUnspecified # {}
        THEN /\ pmResult.kind = "Error"
             /\ Enumerated(pmResult.unspecified_paths) = LeftUnspecified
             /\ Len(pmResult.unspecified_paths) = Cardinality(LeftUnspecified)
             /\ Enumerated(pmResult.examples) = LeftUnspecified
        ELSE /\ pmResult.kind = "Lockfile"
             /\ Substituted(pmResult.urls)
C20_Witness ==
    /\ pmpc = "done"
    /\ pmResult.kind = "Error"
    /\ Len(pmResult.required_paths) = 2
    /\ Len(pmResult.unspecified_paths) = 1
    /\ pmMappings # <<>>

\* C21 as stated: a value with fewer than two pipe-separated components is
\* rejected with an argument error, what follows the second pipe is the
\* description, and the PATH of every accepted mapping is absolute.
C21_AcceptedPathAbsolute ==
    argpc = "done" =>
        LET pipes == {i \in DOMAIN argValue : argValue[i] = "|"}
        IN  /\ pipes = {} <=> argResult.kind = "ArgumentTypeError"
            /\ argResult.kind = "PathMapping" =>
                  /\ Cardinality(pipes) >= 2 =>
                        \E i, j \in pipes :
                            /\ i < j /\ \A k \in pipes : k >= i /\ (k = i \/ k >= j)
                            /\ argResult.mapping.description
                                   = <<SubSeq(argValue, j + 1, Len(argValue))>>
                  /\ Cardinality(pipes) = 1 => argResult.mapping.description = <<>>
                  /\ IsAbs(argResult.mapping.path)

\* C22 as stated: a hook subprocess that exits with 75 is reported to the
\* caller as hook-unavailable, apart from a build failure; any other
\* non-zero exit is a fatal build error whose message includes the stderr.
C22_Exit75ReportedUnavailable ==
    (hookpc = "done" /\ hookExit > 0) =>
        IF hookExit = 75
        THEN hookFallback = "unavailable" /\ hookResult.kind # "Error"
        ELSE hookFallback # "unavailable"
\* C22: is_hook_unavailable_error holds of a Job.Error exactly when its exit
\* code is 75, and the caller of a spawn_prepare_metadata job is told so;
\* build_sdist turns every non-zero exit, 75 as well, into an Error whose
\* message includes the stderr of the Job.Error.
C22_UnavailableIffExit75 ==
    (hookpc = "done" /\ hookExit > 0) =>
        /\ hookMethod = "prepare_metadata_for_build_wheel" =>
              /\ hookResult.kind = "Job.Error" /\ hookResult.exitcode = hookExit
              /\ hookFallback = "unavailable" <=> hookExit = 75
              /\ hookFallback = "failed" <=> hookExit # 75
        /\ hookMethod = "build_sdist" =>
              /\ hookResult.kind = "Error"
              /\ hookResult.message.stderr = hookStderr
              /\ hookFallback = "unknown"
C22_Witness ==
    /\ hookpc = "done"
    /\ hookMethod = "build_sdist"
    /\ hookExit = 75
    /\ hookResult.kind = "Error"
    /\ hookStderr = "Traceback"

C24_NoDispatchAfterCancel ==
    [][interrupted = "raised" =>
           /\ poolSent' = poolSent
           /\ poolInFlight' <= poolInFlight]_vars

\* The destinations that several distributions provide with contents that
\* differ.
DivergentPaths ==
    {dst \in VenvPaths :
        \E i, j \in DOMAIN venvDists :
            /\ dst \in DOMAIN venvDists[i] /\ dst \in DOMAIN venvDists[j]
            /\ venvDists[i][dst] # venvDists[j][dst]}

\* C25 as stated: a destination is a collision only when the contents differ,
\* and by default, the venv tool run without flags included, a collision is a
\* warning and no CollisionError.
C25_NonFatalByDefault ==
    (venvOutcome # <<>>) =>
        /\ venvOutcome.collisions = DivergentPaths
        /\ (venvCall \in {"populate_venv_with_pex()", "venv"} /\ DivergentPaths # {})
               => venvOutcome.kind = "warned"

\* C25: a destination is a collision exactly when several distributions
\* provide it with differing contents; collisions are a warning when
\* collisions_ok holds (the default of populate_venv_with_pex, and the venv
\* tool given --collisions-ok) and CollisionError otherwise (the venv tool
\* without the flag, or collisions_ok=False).
C25_CollisionOnlyWhenHashesDiffer ==
    (venvOutcome # <<>>) =>
        /\ venvOutcome.collisions = DivergentPaths
        /\ venvOutcome.kind =
               IF DivergentPaths = {} THEN "populated"
               ELSE IF venvCall \in {"populate_venv_with_pex()", "venv --collisions-ok"}
                    THEN "warned" ELSE "CollisionError"

\* Two distributions provide one path with the same contents and another with
\* differing contents, and the venv tool runs without --collisions-ok.
C25_Witness ==
    /\ venvOutcome # <<>>
    /\ venvCall = "venv"
    /\ Len(venvDists) = 2
    /\ DOMAIN venvDists[1] = VenvPaths /\ DOMAIN venvDists[2] = VenvPaths
    /\ venvDists[1]["site-packages/colors.py"] = venvDists[2]["site-packages/colors.py"]
    /\ venvOutcome.collisions = {"site-packages/ns/__init__.py"}
    /\ venvOutcome.kind = "CollisionError"

\* C26 as stated: only a FileArtifact is compared, so a store call for a
\* LocalProjectArtifact never fails with FingerprintMismatch.
C26_ComparedForFileOnly ==
    \A t \in RunTasks :
        (Returned(t) /\ Artifact(t).kind # "file") =>
            TaskResult(t).status # "FingerprintMismatch"

\* C26: store compares the computed digest to the recorded fingerprint for a
\* LocalProjectArtifact as it does for a FileArtifact: a store call that
\* hashed a local project fails with FingerprintMismatch exactly when the
\* digest differs from the recorded fingerprint.
C26_LocalProjectCompared ==
    \A t \in RunTasks :
        (Returned(t) /\ Artifact(t).kind = "local" /\ digest[t] # "") =>
            (TaskResult(t).status = "FingerprintMismatch"
                 <=> digest[t] # Artifact(t).fingerprint[2])

\* One run stored the local project with the recorded digest; after the
\* project changed and the cache was cleared, a later store call hashed it to
\* another digest and failed.
C26_Witness ==
    \E t \in RunTasks :
        /\ Returned(t)
        /\ Artifact(t).kind = "local"
        /\ digest[t] = "h2"
        /\ Artifact(t).fingerprint = <<"sha256", "h1">>
        /\ TaskResult(t).status = "FingerprintMismatch"
        /\ TaskResult(t).expected = <<"sha256", "h1">>

\* The ranks of the wheels of a requirement that carry a supported tag: the
\* position of the tag among the target's supported tags, 0 for the best.
MatchingWheelRanks(req) ==
    {j - 1 : j \in {k \in DOMAIN selTags :
                       \E a \in req : a.ext = ".whl" /\ selTags[k] \in ParseTag(a)}}
HasSdist(req) == \E a \in req : a.ext \in SdistExtensions

\* C27: an sdist is ranked len(supported_tags), strictly above the rank of
\* every matching wheel; a requirement with a matching wheel is ranked by its
\* best wheel, never by its sdist.
C27_SdistRankedAfterWheels ==
    selpc = "selected" =>
        \A i \in DOMAIN selLock :
            LET reqs == selLock[i].locked_requirements
            IN /\ \A k \in DOMAIN reqs :
                    LET wheelRanks == MatchingWheelRanks(reqs[k])
                        artRanks == ArtifactRanks(reqs[k], selTags)
                    IN /\ HasSdist(reqs[k]) => Len(selTags) \in artRanks
                       /\ \A w \in wheelRanks : w \in artRanks /\ w < Len(selTags)
                       /\ wheelRanks # {} =>
                              /\ MinOf(artRanks) \in wheelRanks
                              /\ \A w \in wheelRanks : MinOf(artRanks) <= w
               /\ (Len(reqs) = 1 /\ MatchingWheelRanks(reqs[1]) # {}) =>
                      /\ selRanks[i].ranked
                      /\ selRanks[i].sum \in MatchingWheelRanks(reqs[1])
                      /\ selRanks[i].sum < Len(selTags)

\* A requirement with a wheel matching the target's second tag and an sdist was
\* ranked 1, the wheel's rank, with two supported tags.
C27_Witness ==
    /\ selpc = "selected"
    /\ selTags = <<Tag("py3"), Tag("cp3")>>
    /\ \E i \in DOMAIN selLock :
           /\ selLock[i].locked_requirements = <<{Wheel({"cp3"}), NonWheel(".zip")}>>
           /\ selRanks[i].ranked
           /\ selRanks[i].sum = 1
           /\ selRanks[i].count = 1

\* The least rank among the usable artifacts of a requirement.
LeastRank(req) ==
    CHOOSE m \in MatchingWheelRanks(req) \cup (IF HasSdist(req) THEN {Len(selTags)} ELSE {}) :
        /\ \A w \in MatchingWheelRanks(req) : m <= w
        /\ HasSdist(req) => m <= Len(selTags)

\* C28: for a resolve whose every requirement has a usable artifact, the rank
\* is the mean of the requirements' least artifact ranks: their sum over the
\* number of requirements.
C28_RankIsMeanOfMinima ==
    selpc = "selected" =>
        \A i \in DOMAIN selLock :
            LET reqs == selLock[i].locked_requirements
            IN (/\ reqs # <<>>
                /\ \A k \in DOMAIN reqs :
                       MatchingWheelRanks(reqs[k]) # {} \/ HasSdist(reqs[k])) =>
                   /\ selRanks[i].ranked
                   /\ selRanks[i].count = Len(reqs)
                   /\ selRanks[i].sum =
                          IF Len(reqs) = 1 THEN LeastRank(reqs[1])
                          ELSE LeastRank(reqs[1]) + LeastRank(reqs[2])

\* A resolve of two requirements, one with a wheel of rank 1 and one with only
\* an sdist (rank 2), was ranked 3 / 2.
C28_Witness ==
    /\ selpc = "selected"
    /\ selTags = <<Tag("py2"), Tag("py3")>>
    /\ \E i \in DOMAIN selLock :
           /\ selLock[i].locked_requirements = <<{Wheel({"py3"})}, {NonWheel(".tar.gz")}>>
           /\ selRanks[i].ranked
           /\ selRanks[i].sum = 3
           /\ selRanks[i].count = 2

\* C29 as stated, in what it says of the rank: for a lock with
\* allow_wheels=false no wheel is counted, so every requirement that has an
\* sdist is ranked len(supported_tags): the rank's sum of a resolve of such
\* requirements is that many times the number of requirements.
C29_NoWheelCounted ==
    (selpc = "selected" /\ ~allowWheels) =>
        \A i \in DOMAIN selLock :
            (/\ selRanks[i].ranked
             /\ \A k \in DOMAIN selLock[i].locked_requirements :
                    HasSdist(selLock[i].locked_requirements[k])) =>
                selRanks[i].sum = Len(selTags) * selRanks[i].count

\* C30 as stated: whenever _select has a ranked lock, and so computes
\* (count - rank) / count, count = len(supported_tags) is positive: no
\* resolve is ranked for a target without supported tags and no
\* ZeroDivisionError leaves select.
C30_CountPositive ==
    selpc = "selected" =>
        /\ (\E i \in DOMAIN selRanks : selRanks[i].ranked) => Len(selTags) > 0
        /\ selOutcome # "ZeroDivisionError"

\* How often a pair occurs in a list of requests.
Occurrences(requests, pair) == Cardinality({i \in DOMAIN requests : requests[i] = pair})
RequestsMade == rqpc = "install" \/ rqResult = "Installed"

\* C31: after a download phase without failure every (target, artifact) pair
\* of every subset has exactly one request: an install request when the
\* artifact is a .whl file, else a build request; the requests number as many
\* as the subsets' artifacts together.
C31_OneRequestPerPair ==
    RequestsMade =>
        /\ \A s \in DOMAIN rqSubsets : \A k \in DOMAIN rqSubsets[s].artifacts :
              LET a == rqSubsets[s].artifacts[k]
                  pair == <<rqSubsets[s].target, a>>
              IN /\ Occurrences(rqInstall, pair) = (IF a.ext = ".whl" THEN 1 ELSE 0)
                 /\ Occurrences(rqBuild, pair) = (IF a.ext = ".whl" THEN 0 ELSE 1)
        /\ Len(rqBuild) + Len(rqInstall) =
               Len(rqSubsets[1].artifacts)
                   + (IF Len(rqSubsets) = 2 THEN Len(rqSubsets[2].artifacts) ELSE 0)

\* Two targets with a wheel and an sdist each: two install and two build
\* requests.
C31_Witness ==
    /\ RequestsMade
    /\ Len(rqSubsets) = 2
    /\ Len(rqSubsets[1].artifacts) = 2 /\ Len(rqSubsets[2].artifacts) = 2
    /\ Len(rqInstall) = 2 /\ Len(rqBuild) = 2
    /\ rqInstall[1][1] # rqInstall[2][1]
    /\ rqInstall[1][2] # rqInstall[2][2]

\* C32: the requests are made, and the build and install phase entered, only
\* in the step that finds every download task finished without failure; when
\* a download failed that step returns the Error and no request is ever made.
C32_InstallOnlyAfterAllDownloadsSucceed ==
    [][/\ (rqpc' = "install" /\ rqpc # "install") =>
              \A i \in DOMAIN rqResults : rqResults[i] = "ok"
       /\ (rqBuild' # rqBuild \/ rqInstall' # rqInstall) =>
              /\ rqpc' = "install" /\ rqpc = "map"
              /\ \A i \in DOMAIN rqResults : rqResults[i] = "ok"
       /\ (rqpc = "map" /\ rqpc' # "map"
               /\ \E i \in DOMAIN rqResults : rqResults[i] = "error") =>
              /\ rqResult' = "Error" /\ rqpc' = "done"
              /\ rqBuild' = <<>> /\ rqInstall' = <<>>
       /\ rqResult' = "Error" => (rqBuild' = <<>> /\ rqInstall' = <<>>)]_vars

\* One download succeeded, another failed, and the Error was returned.
C32_Witness ==
    /\ rqResult = "Error"
    /\ Len(rqSubmitted) = 2
    /\ rqSubmitted[1].ext = ".whl"
    /\ rqResults[1] = "ok" /\ rqResults[2] = "error"
    /\ rqBuild = <<>> /\ rqInstall = <<>>

\* C33: every artifact of some subset is handed to the pool exactly once,
\* however many targets require it, and each target that requires it still
\* gets a request of its own for it.
C33_DownloadedOncePerRun ==
    /\ rqpc # "start" =>
          /\ \A s \in DOMAIN rqSubsets : \A k \in DOMAIN rqSubsets[s].artifacts :
                Cardinality({i \in DOMAIN rqSubmitted :
                                rqSubmitted[i] = rqSubsets[s].artifacts[k]}) = 1
          /\ \A i \in DOMAIN rqSubmitted :
                \E s \in DOMAIN rqSubsets : \E k \in DOMAIN rqSubsets[s].artifacts :
                    rqSubsets[s].artifacts[k] = rqSubmitted[i]
    /\ RequestsMade =>
          \A s \in DOMAIN rqSubsets : \A k \in DOMAIN rqSubsets[s].artifacts :
              \E i \in DOMAIN (rqInstall \o rqBuild) :
                  (rqInstall \o rqBuild)[i] =
                      <<rqSubsets[s].target, rqSubsets[s].artifacts[k]>>

\* Both targets require the same wheel: one download, two install requests.
C33_Witness ==
    /\ RequestsMade
    /\ Len(rqSubsets) = 2
    /\ rqSubsets[1].artifacts = rqSubsets[2].artifacts
    /\ Len(rqSubsets[1].artifacts) = 1
    /\ Len(rqSubmitted) = 1
    /\ Len(rqInstall) = 2
    /\ rqInstall[1][2] = rqInstall[2][2]
    /\ rqInstall[1][1] # rqInstall[2][1]

\* The files in dest_dir.
InDestDir == {p \in DOMAIN vcsFiles : SubSeq(p, 1, Len(DestDir)) = DestDir}

\* C34: save returns an error, with the digest untouched and dest_dir empty,
\* unless the download left exactly one local distribution; with exactly one
\* the digest is that of the archive, taken before the archive is moved into
\* dest_dir under its own file name.
C34_ExactlyOneDistribution ==
    /\ vcspc = "returned" =>
          IF Len(vcsDists) # 1
          THEN /\ vcsRet[1] = "Error"
               /\ vcsDigest = <<>>
               /\ InDestDir = {}
          ELSE /\ vcsRet[1] = "filename"
               /\ vcsRet[2] = vcsDists[1].path[2]
               /\ vcsDigest = <<HexDigest(vcsDists[1].content)>>
               /\ InDestDir = {<<"downloads", "work", vcsDists[1].path[2]>>}
               /\ vcsFiles[<<"downloads", "work", vcsDists[1].path[2]>>] = vcsDists[1].content
    /\ InDestDir # {} => vcsDigest # <<>>
    /\ vcspc = "hashed" => (InDestDir = {} /\ vcsDists[1].path \in DOMAIN vcsFiles)

\* Two distributions: an error, nothing hashed or moved.
C34_Witness ==
    /\ vcspc = "returned"
    /\ Len(vcsDists) = 2
    /\ vcsRet[1] = "Error"
    /\ vcsDigest = <<>>
    /\ Cardinality(DOMAIN vcsFiles) = 2

InCmd(arg) == \E i \in DOMAIN whCmd : whCmd[i] = arg

\* C35: installing a wheel for a foreign target never compiles bytecode:
\* spawn_install_wheel with a foreign target and compile=True raises before
\* any subprocess is spawned; with compile=False the install command carries
\* --no-compile; the post-install fixup runs only when the install
\* subprocess exited 0.
C35_ForeignNeverCompiles ==
    /\ (whpc \in {"raised", "running", "done"} /\ whCall.is_foreign /\ whCall.compile)
           => (whpc = "raised" /\ ~whSpawned /\ whCmd = <<>>)
    /\ (whSpawned /\ whCall.is_foreign) => ~InCmd("--compile")
    /\ (whSpawned /\ ~whCall.compile) => (InCmd("--no-compile") /\ ~InCmd("--compile"))
    /\ whFixedUp => (whpc = "done" /\ whReturncode = 0)

C35_Witness ==
    /\ whCalls = 2
    /\ whpc = "raised"
    /\ whCall.is_foreign /\ whCall.compile
    /\ ~whSpawned

\* C36: resolve_from_lock obtains the Pip tool before the download pool is
\* created: Pip.create never runs on a download worker thread nor while the
\* pool exists, and the Pip tool is in _PIP as long as the pool exists.
C36_PipCreatedBeforePool ==
    /\ \A i \in DOMAIN pipCreations :
           /\ pipCreations[i].thread = 0
           /\ pipCreations[i].pool = "none"
    /\ pipPool \in {"open", "joined"} => DefaultInterpreter \in pipCache

C36_Witness ==
    /\ pipPool = "open"
    /\ Len(pipCreations) = 1
    /\ \E t, u \in DOMAIN pipTask :
           t # u /\ pipTask[t] = "have_pip" /\ pipTask[u] = "have_pip"

Raised(t, error) == Len(tgRet[t]) = 2 /\ tgRet[t][1] = error
ReturnedTags(t) == tgpc[t] = "done" /\ Len(tgRet[t]) = 2 /\ tgRet[t][1] = "tags"
\* A call that started when the memory cache was set returns the cached
\* value and touches no disk cache.
LaterCallsHit ==
    \A t \in Callers :
        tgHit[t] => /\ ~tgTouched[t]
                    /\ tgpc[t] \in {"start", "done"}
                    /\ tgpc[t] = "done" => tgRet[t] = <<"tags", tgMemo[1]>>

\* C37 as stated: the key of the in-memory cache is written at most once per
\* process, also with concurrent callers, and a call made after the write
\* returns the cached value without touching the disk cache.
C37_WrittenAtMostOnce ==
    /\ tgWrites <= 1
    /\ LaterCallsHit

\* C37 amended: every thread writes the key at most once (callers that all
\* missed the memory cache each write it), the value never changes once
\* written, and a call made after the write returns the cached value without
\* touching the disk cache.
C37_WrittenOncePerCaller ==
    /\ [](tgWrites <= MaxCallers /\ LaterCallsHit)
    /\ [][tgMemo # <<>> => tgMemo' = tgMemo]_vars

C37_Witness ==
    /\ tgWrites = 2
    /\ \E t \in Callers : tgHit[t] /\ ReturnedTags(t)

ListOfThreeStrings(tag) ==
    /\ tag.type = "list"
    /\ Len(tag.comps) = 3
    /\ \A i \in DOMAIN tag.comps : tag.comps[i] = "string"

\* C38: supported_tags never returns or memoizes tags of an invalid disk
\* cache entry: an entry that is not parsable JSON, not an object, without a
\* supported_tags list or with a tag that is not a list of three strings is
\* deleted and recomputed.
C38_InvalidEntryRegenerated ==
    /\ tgMemo # <<>> => \A i \in DOMAIN tgMemo[1] : ListOfThreeStrings(tgMemo[1][i])
    /\ \A t \in Callers :
           /\ ReturnedTags(t) =>
                  \A i \in DOMAIN tgRet[t][2] : ListOfThreeStrings(tgRet[t][2][i])
           /\ ~Raised(t, "TypeError")

\* C39: the read of PLAT-INFO after the atomic_directory scope always finds
\* the file, whatever the interleaving of the callers.
C39_ReadFindsFile ==
    \A t \in Callers : ~Raised(t, "IOError")

\* C40: the default build system of a pip version is constructed at most
\* once per process and every caller gets the same BuildSystem, also when
\* the build hooks are invoked concurrently from download worker threads.
C40_DefaultBuildSystemOnce ==
    /\ \A v \in PipVersions : bsCreated[v] <= 1
    /\ \A t, u \in Builders :
           (/\ bsVersion[t] = bsVersion[u]
            /\ bsRet[t].kind = "default"
            /\ bsRet[u].kind = "default") => bsRet[t].id = bsRet[u].id

====
